---- MODULE Spec2Model ----
(***************************************************************************)
(* A model of manim-eng: the cardinal snapping utility, the automatic wire *)
(* router and the Circuit bookkeeping layer.                               *)
(*                                                                         *)
(* Numbers.  Angles are whole degrees in -179..180 (the range of           *)
(* angle_of_vector), so pi/2 is 90 and pi/4 is 45.  A vector is kept in    *)
(* polar form [mag, ang]; its Cartesian components are read from a cosine  *)
(* table in thousandths.  Points are pairs of integers in half grid units, *)
(* terminal ends lie on whole grid units, so midpoints are exact.          *)
(***************************************************************************)
EXTENDS Integers, Sequences, FiniteSets, TLC

VARIABLES
    \* ---- cardinalised() called on a vector ----
    vector,            \* the array passed to cardinalised, as the caller holds it
    vector_original,   \* a copy of it taken before the call
    margin,            \* the margin passed
    snapped,           \* cardinalised(vector, margin), NoVector before the call
    resnapped,         \* cardinalised(snapped, margin), NoVector before the call
    \* ---- a Wire between two terminals ----
    from_terminal,     \* [end, direction] of the terminal the wire starts at
    to_terminal,       \* [end, direction] of the terminal the wire ends at
    wire_points,       \* the wire's points, <<>> before the wire is constructed
    wire_updates,      \* how many times the wire's updater has run
    \* ---- a Circuit ----
    components,        \* circuit.components: the components added, nodes apart
    nodes,             \* circuit.nodes: the nodes added
    wires,             \* circuit.wires, in the order they were added
    op,                \* the last operation called
    args,              \* its arguments
    err,               \* the error it raised, NoError when it returned
    wires_before,      \* circuit.wires when it was called
    connection_count,  \* for each terminal: attach calls less detach calls of its wires
    \* ---- a Voltage arrow around a component ----
    voltage,           \* [from_end, to_end, clockwise, direction] of the Voltage
    middle_point,      \* the point the arrow is to go through
    arc_details,       \* what _get_arc_details_for_middle_point computed, NoArc before
    arrow,             \* the arrow drawn, NoArrow before
    \* ---- a Node ----
    node,              \* [open, autoblob, blob_visible, terminals] of the Node
    node_call,         \* the last method called on it: [name, arg, returned]
    node_before,       \* the node when that method was called
    \* ---- a configuration object (config_eng, or any other ConfigBase) ----
    config,            \* the object: [type, value], value maps each field to its value
    config_call,       \* the last load_from_dict called on it: [name, dictionary, err]
    config_before,     \* the object when that call was made, or the with-block entered
    with_block,        \* tempconfig_eng: [pc, temp_config, original, body_raised, err]
    \* ---- the current annotation of a Terminal ----
    terminal_state,    \* the arrow and the mark of the terminal, see Terminal_init
    terminal_call,     \* the last method called on it: [name, label, out, below]
    terminal_before,   \* the terminal when that method was called
    \* ---- Component.voltage called on a component ----
    component_call,    \* the call: [name, from_terminal, to_terminal, label]
    component_result,  \* what it raised and the Voltage it returned
    \* ---- a Component and the mobjects added to it ----
    submobjects,       \* the submobjects of every group, in their order
    markable_call      \* the last method called: [name, on, mobjects]

cardVars == <<vector, vector_original, margin, snapped, resnapped>>
wireVars == <<from_terminal, to_terminal, wire_points, wire_updates>>
circuitVars ==
    <<components, nodes, wires, op, args, err, wires_before, connection_count>>
arcVars == <<voltage, middle_point, arc_details, arrow>>
nodeVars == <<node, node_call, node_before>>
configVars == <<config, config_call, config_before, with_block>>
terminalVars == <<terminal_state, terminal_call, terminal_before>>
componentVars == <<component_call, component_result>>
markableVars == <<submobjects, markable_call>>
lateVars == <<componentVars, markableVars>>
moreVars == <<configVars, terminalVars, lateVars>>
restVars == <<arcVars, nodeVars, moreVars>>
vars == <<cardVars, wireVars, circuitVars, restVars>>

----------------------------------------------------------------------------
(* Bounds *)

\* Largest magnitude of a vector handed to cardinalised.
MaxMag == 2

\* Terminal ends lie at whole grid coordinates in -MaxCoord..MaxCoord.
MaxCoord == 1

\* A circuit holds at most MaxWires wires.
MaxWires == 2

\* disconnect and isolate are called with at most MaxItems arguments.
MaxItems == 2

\* No terminal is attached, or detached, more than MaxConnections times over.
MaxConnections == 2

\* The updater of a wire runs at most MaxUpdates times.
MaxUpdates == 2

----------------------------------------------------------------------------
(* Arithmetic helpers *)

Abs(n) == IF n < 0 THEN -n ELSE n

\* np.sign
Sgn(n) == IF n > 0 THEN 1 ELSE IF n < 0 THEN -1 ELSE 0

\* 1000 * cos(a degrees), a in 0..90, rounded.
CosTable ==
    <<1000, 1000, 999, 999, 998, 996, 995, 993, 990, 988, 985, 982, 978, 974,
      970, 966, 961, 956, 951, 946, 940, 934, 927, 921, 914, 906, 899, 891,
      883, 875, 866, 857, 848, 839, 829, 819, 809, 799, 788, 777, 766, 755,
      743, 731, 719, 707, 695, 682, 669, 656, 643, 629, 616, 602, 588, 574,
      559, 545, 530, 515, 500, 485, 469, 454, 438, 423, 407, 391, 375, 358,
      342, 326, 309, 292, 276, 259, 242, 225, 208, 191, 174, 156, 139, 122,
      105, 87, 70, 52, 35, 17, 0>>

\* An angle brought back into -179..180.
NormAngle(a) == ((a + 179) % 360) - 179

Cos1000(a) ==
    LET b == Abs(NormAngle(a))
    IN  IF b <= 90 THEN CosTable[b + 1] ELSE -CosTable[(180 - b) + 1]

Sin1000(a) == Cos1000(a - 90)

\* Cartesian components (x, y) of a polar vector, in thousandths.
Cart(v) == <<v.mag * Cos1000(v.ang), v.mag * Sin1000(v.ang)>>

\* The polar form of the array that is zero but for `value` at `index`
\* (0 is x, 1 is y): its norm and its angle_of_vector.
AxisVector(index, value) ==
    [mag |-> Abs(value),
     ang |-> IF value = 0 THEN 0
             ELSE IF index = 0 THEN (IF value > 0 THEN 0 ELSE 180)
             ELSE (IF value > 0 THEN 90 ELSE -90)]

NoVector == [mag |-> -1, ang |-> 0]

\* The angles angle_of_vector returns.
Angles == -179..180

\* Every vector of magnitude at most MaxMag; the zero vector has angle 0.
Vectors ==
    {[mag |-> 0, ang |-> 0]} \cup [mag : 1..MaxMag, ang : Angles]

\* The margins in (0, pi/4), and pi/4 itself.
Margins == 1..45

----------------------------------------------------------------------------
(* manim_eng._utils *)

\* np.pi / 2
QuarterTurn == 90

\* np.argmax(np.abs(vector)): the first index of the largest component.
abs_max_index(vec) ==
    LET c == Cart(vec) IN IF Abs(c[1]) >= Abs(c[2]) THEN 0 ELSE 1

vector_within_margin_of_cardinal_direction(angle, m) ==
    ((angle + m) % QuarterTurn) <= 2 * m

\* cardinalised with the sign of the snapped component reversed.
cardinalised_sign_flipped(vec, m) ==
    IF ((vec.ang + m) % 90) <= 2 * m
    THEN AxisVector(IF Abs(Cart(vec)[1]) >= Abs(Cart(vec)[2]) THEN 0 ELSE 1,
                    - vec.mag * Sgn(Cart(vec)[IF Abs(Cart(vec)[1]) >= Abs(Cart(vec)[2])
                                              THEN 1 ELSE 2]))
    ELSE vec

\* cardinalised with the margin taken as exclusive.
cardinalised_margin_exclusive(vec, m) ==
    IF ((vec.ang + m) % 90) < 2 * m
    THEN AxisVector(IF Abs(Cart(vec)[1]) >= Abs(Cart(vec)[2]) THEN 0 ELSE 1,
                    vec.mag * Sgn(Cart(vec)[IF Abs(Cart(vec)[1]) >= Abs(Cart(vec)[2])
                                            THEN 1 ELSE 2]))
    ELSE vec

\* cardinalised with the test made every half turn: only left and right are
\* snapped to.
cardinalised_half_turn(vec, m) ==
    IF ((vec.ang + m) % 180) <= 2 * m
    THEN AxisVector(IF Abs(Cart(vec)[1]) >= Abs(Cart(vec)[2]) THEN 0 ELSE 1,
                    vec.mag * Sgn(Cart(vec)[IF Abs(Cart(vec)[1]) >= Abs(Cart(vec)[2])
                                            THEN 1 ELSE 2]))
    ELSE vec

cardinalised(vec, m) ==
    LET vector_magnitude == vec.mag
        angle == vec.ang
        index == abs_max_index(vec)
    IN  IF vector_within_margin_of_cardinal_direction(angle, m)
        THEN AxisVector(index, vector_magnitude * Sgn(Cart(vec)[index + 1]))
        ELSE vec

----------------------------------------------------------------------------
(* Points and vectors of the router *)

Add(p, q) == <<p[1] + q[1], p[2] + q[2]>>
Sub(p, q) == <<p[1] - q[1], p[2] - q[2]>>
Dot(p, q) == p[1] * q[1] + p[2] * q[2]

\* mn.midpoint; the ends are at even coordinates, so the halves are exact.
midpoint(p, q) == <<(p[1] + q[1]) \div 2, (p[2] + q[2]) \div 2>>

\* mn.rotate_vector(v, angle) about OUT, the angle in degrees.
rotate_vector(v, angle) == [mag |-> v.mag, ang |-> NormAngle(v.ang + angle)]

\* np.cross(v, mn.OUT): (x, y) becomes (y, -x).
cross_with_OUT(v) == rotate_vector(v, -90)

\* utils.normalised
normalised(v) == [mag |-> 1, ang |-> v.ang]

\* np.isclose(np.dot(u, v), 0) of two vectors: the dot product, in
\* millionths, is within 1e-8 of zero.
dot_is_close_to_zero(u, v) == Dot(Cart(u), Cart(v)) = 0

\* mn.find_intersection for one pair of lines: the point of the line through
\* p0 along v0 nearest to the line through p1 along v1,
\*   p0 + ((p1 - p0) . n / max(v0 . n, threshold)) v0,  n = v1 x (v0 x v1).
\* With c the z component of v0 x v1, n is c (v1.y, -v1.x) and v0 . n is c^2,
\* so for parallel lines (c = 0) the point is p0.  Lines less than a fifth
\* of a degree from parallel, where the threshold would act, do not occur.
find_intersection(p0, v0, p1, v1) ==
    LET c0 == Cart(v0)
        c1 == Cart(v1)
        c  == c0[1] * c1[2] - c0[2] * c1[1]
        num == Dot(Sub(p1, p0), <<c1[2], -c1[1]>>)
    IN  IF c = 0 THEN p0
        ELSE <<p0[1] + (num * c0[1]) \div c, p0[2] + (num * c0[2]) \div c>>

----------------------------------------------------------------------------
(* manim_eng.circuit.wire.Wire *)

\* The margin cardinalised uses when the router passes none: the vector is
\* snapped to the nearest axis whatever its angle (45 degrees snaps to the
\* horizontal).
DefaultMargin == 45

point_is_behind_plane(point, point_on_plane, normal) ==
    LET vector_to_point == Sub(point, point_on_plane)
    IN  Dot(Cart(normal), vector_to_point) < 0

\* The point is left where it is, behind the plane or not.
move_point_never(point, point_on_plane, normal) == point

\* distance_to_move is in thousandths, the components of the unit normal too.
move_point_forward_of_plane(point, point_on_plane, normal) ==
    LET vector_to_point == Sub(point, point_on_plane)
        distance_to_move == -Dot(Cart(normal), vector_to_point)
        unit == Cart(normalised(normal))
    IN  IF distance_to_move <= 0 THEN point
        ELSE <<point[1] + (unit[1] * distance_to_move) \div 1000000,
               point[2] + (unit[2] * distance_to_move) \div 1000000>>

\* The perpendicular router without the move to the other vertex of the box.
perpendicular_corner_never_moved(from, to, from_direction, to_direction) ==
    <<find_intersection(from.end, from_direction, to.end, to_direction)>>

\* The perpendicular router with the corner always moved to the other vertex.
perpendicular_corner_always_moved(from, to, from_direction, to_direction) ==
    IF find_intersection(from.end, from_direction, to.end, to_direction)[1]
           = from.end[1]
    THEN << <<to.end[1], from.end[2]>> >>
    ELSE << <<from.end[1], to.end[2]>> >>

get_corner_points_for_perpendicular_terminals(from, to, from_direction, to_direction) ==
    LET from_end == from.end
        to_end == to.end
        corner_point ==
            find_intersection(from_end, from_direction, to_end, to_direction)
    IN  IF \/ point_is_behind_plane(corner_point, from_end, from_direction)
           \/ point_is_behind_plane(corner_point, to_end, to_direction)
        THEN IF corner_point[1] = from_end[1]
             THEN << <<to_end[1], from_end[2]>> >>
             ELSE << <<from_end[1], to_end[2]>> >>
        ELSE <<corner_point>>

\* The parallel router with the joining line drawn along the terminals'
\* direction instead of across it.
parallel_corners_along_direction(from, to, from_direction, to_direction) ==
    <<find_intersection(midpoint(from.end, to.end), from_direction,
                        from.end, from_direction),
      find_intersection(midpoint(from.end, to.end), from_direction,
                        to.end, to_direction)>>

get_corner_points_for_parallel_terminals(from, to, from_direction, to_direction) ==
    LET mid == midpoint(from.end, to.end)
        to_behind_from == point_is_behind_plane(to.end, from.end, from_direction)
        from_behind_to == point_is_behind_plane(from.end, to.end, to_direction)
        both == to_behind_from /\ from_behind_to
        from_dir == IF both THEN rotate_vector(from_direction, 90)
                    ELSE from_direction
        to_dir == IF both THEN rotate_vector(to_direction, 90) ELSE to_direction
        moved == IF both THEN mid
                 ELSE IF to_behind_from
                 THEN move_point_forward_of_plane(mid, from.end, from_direction)
                 ELSE IF from_behind_to
                 THEN move_point_forward_of_plane(mid, to.end, to_direction)
                 ELSE mid
        perpendicular_direction == cross_with_OUT(from_dir)
    IN  <<find_intersection(moved, perpendicular_direction, from.end, from_dir),
          find_intersection(moved, perpendicular_direction, to.end, to_dir)>>

get_corner_points(from, to) ==
    LET from_direction == cardinalised(from.direction, DefaultMargin)
        to_direction == cardinalised(to.direction, DefaultMargin)
    IN  IF dot_is_close_to_zero(from_direction, to_direction)
        THEN get_corner_points_for_perpendicular_terminals(
                 from, to, from_direction, to_direction)
        ELSE get_corner_points_for_parallel_terminals(
                 from, to, from_direction, to_direction)

\* A point of a wire: `at`, moved back by 0.001 of `back`.
WirePoint(at, back) == [at |-> at, back |-> back]
ZeroVector == [mag |-> 0, ang |-> 0]

\* _WireBase.__construct_wire
construct_wire(from, to) ==
    LET corners == get_corner_points(from, to)
    IN  <<WirePoint(from.end, from.direction), WirePoint(from.end, ZeroVector)>>
        \o [i \in 1..Len(corners) |-> WirePoint(corners[i], ZeroVector)]
        \o <<WirePoint(to.end, ZeroVector), WirePoint(to.end, to.direction)>>

\* The corners are added to the points the wire has instead of replacing them.
add_points_as_corners(points, corners) == points \o corners

\* mn.VMobject.set_points_as_corners: the points of the wire are replaced.
set_points_as_corners(points, corners) == corners

\* The updater of a Wire, `lambda mob: mob.__construct_wire()`: what it
\* leaves in the wire and in the two terminals it reads.
updater(points, from, to) ==
    [points |-> set_points_as_corners(points, construct_wire(from, to)),
     from_terminal |-> from, to_terminal |-> to]

----------------------------------------------------------------------------
(* A Wire constructed between two terminals *)

\* No error: the call returned.
NoError == "none"

\* No call is being looked at.
Idle == "idle"

\* No arc computed, no arrow drawn.
NoArc == [err |-> "not computed"]
NoArrow == [path_arc |-> "not drawn"]

\* No Voltage is being looked at.
ArcIdle ==
    /\ voltage = [from_end |-> <<0, 0>>, to_end |-> <<0, 0>>,
                  clockwise |-> FALSE, direction |-> <<0, 0>>]
    /\ middle_point = <<0, 0>>
    /\ arc_details = NoArc
    /\ arrow = NoArrow

\* No Node is being looked at.
NoNode == [open |-> FALSE, autoblob |-> FALSE, blob_visible |-> FALSE, terminals |-> <<>>]
NoNodeCall == [name |-> "none", arg |-> <<>>, returned |-> 0]

NodeIdle ==
    /\ node = NoNode
    /\ node_call = NoNodeCall
    /\ node_before = NoNode

\* No configuration object is being looked at.
NoConfig == [type |-> "none", value |-> 0, entries |-> <<>>]
NoValueError == [raised |-> FALSE, invalid |-> "none", path |-> <<>>,
                 got |-> "none", expected |-> "none"]
NoConfigCall == [name |-> "none", dictionary |-> <<>>, err |-> NoValueError]
Outside == [pc |-> "outside", temp_config |-> <<>>, original |-> <<>>,
            body_raised |-> FALSE, err |-> NoValueError]

ConfigIdle ==
    /\ config = NoConfig
    /\ config_call = NoConfigCall
    /\ config_before = NoConfig
    /\ with_block = Outside

\* No Terminal is being looked at.
NoTerminalState ==
    [current_arrow_showing |-> FALSE, current_arrow_pointing_out |-> FALSE,
     current_arrow_rotation |-> 0, current_mark_anchored_below |-> FALSE,
     current_anchor |-> "none", current_marked |-> FALSE, current_text |-> ""]
NoTerminalCall == [name |-> "none", label |-> "", out |-> <<>>, below |-> <<>>]

TerminalIdle ==
    /\ terminal_state = NoTerminalState
    /\ terminal_call = NoTerminalCall
    /\ terminal_before = NoTerminalState

\* Component.voltage has not been called.
NoArgument == [kind |-> "None", value |-> ""]
NoVoltage == [from_terminal |-> "", to_terminal |-> "", label |-> "", avoid |-> ""]
NoComponentCall == [name |-> "none", from_terminal |-> NoArgument,
                    to_terminal |-> NoArgument, label |-> ""]
NoComponentResult == [err |-> NoError, voltage |-> NoVoltage]

ComponentIdle ==
    /\ component_call = NoComponentCall
    /\ component_result = NoComponentResult

LateIdle ==
    /\ ComponentIdle
    /\ submobjects = <<>>
    /\ markable_call = <<>>

MoreIdle ==
    /\ ConfigIdle
    /\ TerminalIdle
    /\ LateIdle

\* The objects that a specification does not look at.
RestIdle ==
    /\ ArcIdle
    /\ NodeIdle
    /\ MoreIdle

\* The objects of the scene: one ordinary component with two terminals (as
\* the tests' DummyComponent) and one Node with one terminal.
ComponentIds == {"c1"}
NodeIds == {"n"}
ElementIds == ComponentIds \cup NodeIds
TerminalIds == {"a1", "a2", "n1"}

\* Circuit(): no components, no nodes, no wires; no terminal has a wire.
EmptyCircuit ==
    /\ components = {}
    /\ nodes = {}
    /\ wires = <<>>
    /\ op = Idle
    /\ args = <<>>
    /\ err = NoError
    /\ wires_before = <<>>
    /\ connection_count = [t \in TerminalIds |-> 0]

NoTerminal == [end |-> <<0, 0>>, direction |-> NoVector]

\* No vector is being snapped, no wire is being constructed.
CardIdle ==
    /\ vector = ZeroVector
    /\ vector_original = ZeroVector
    /\ margin = DefaultMargin
    /\ snapped = NoVector
    /\ resnapped = NoVector

WireIdle ==
    /\ from_terminal = NoTerminal
    /\ to_terminal = NoTerminal
    /\ wire_points = <<>>
    /\ wire_updates = 0

Ends == {<<2 * i, 2 * j>> : i, j \in -MaxCoord..MaxCoord}

\* The directions of the terminals: unit vectors every 30 and every 45
\* degrees.
Directions == {[mag |-> 1, ang |-> a] : a \in {b \in Angles : b % 30 = 0 \/ b % 45 = 0}}

Terminals == [end : Ends, direction : Directions]

InitWire ==
    /\ from_terminal \in Terminals
    /\ to_terminal \in Terminals
    /\ wire_points = <<>>
    /\ wire_updates = 0
    /\ vector = ZeroVector
    /\ vector_original = ZeroVector
    /\ margin = DefaultMargin
    /\ snapped = NoVector
    /\ resnapped = NoVector
    /\ EmptyCircuit
    /\ RestIdle

\* Wire(from_terminal, to_terminal) for two different terminals.
ConstructWire ==
    /\ wire_points = <<>>
    /\ wire_points' = construct_wire(from_terminal, to_terminal)
    /\ UNCHANGED <<from_terminal, to_terminal, wire_updates, cardVars, circuitVars, restVars>>

NextWire == ConstructWire

SpecWire == InitWire /\ [][NextWire]_vars

\* The scene runs the updater of the wire, any number of times a frame.
UpdateWire ==
    /\ wire_points # <<>>
    /\ wire_updates < MaxUpdates
    /\ LET updated == updater(wire_points, from_terminal, to_terminal)
       IN  /\ wire_points' = updated.points
           /\ from_terminal' = updated.from_terminal
           /\ to_terminal' = updated.to_terminal
    /\ wire_updates' = wire_updates + 1
    /\ UNCHANGED <<cardVars, circuitVars, restVars>>

NextWireUpdate ==
    \/ ConstructWire
    \/ UpdateWire

SpecWireUpdate == InitWire /\ [][NextWireUpdate]_vars

----------------------------------------------------------------------------
(* Properties of the router *)

Constructed == wire_points # <<>>

\* The path of the wire: from_terminal.end, the corner points, to_terminal.end.
Path == [i \in 1..(Len(wire_points) - 2) |-> wire_points[i + 1].at]
Corners == [i \in 1..(Len(wire_points) - 4) |-> wire_points[i + 2].at]

from_cardinal == cardinalised(from_terminal.direction, DefaultMargin)
to_cardinal == cardinalised(to_terminal.direction, DefaultMargin)

IsCardinal(v) == v.ang \in {0, 90, 180, -90}
Cross(u, v) == Cart(u)[1] * Cart(v)[2] - Cart(u)[2] * Cart(v)[1]
Perpendicular == Dot(Cart(from_cardinal), Cart(to_cardinal)) = 0
Parallel == Cross(from_cardinal, to_cardinal) = 0

AxisAligned(p, q) == p[1] = q[1] \/ p[2] = q[2]

\* C2: an auto-routed wire has at most two corner points, exactly two when
\* the cardinalised directions are parallel or antiparallel, and every
\* segment of its path is horizontal or vertical.
C2_AtMostTwoCornersAxisAligned ==
    Constructed =>
        /\ Len(Corners) <= 2
        /\ Parallel => Len(Corners) = 2
        /\ \A i \in 1..(Len(Path) - 1) : AxisAligned(Path[i], Path[i + 1])

C2_Witness ==
    /\ Constructed
    /\ Parallel
    /\ Len(Corners) = 2
    /\ Corners[1] # from_terminal.end
    /\ Corners[2] # to_terminal.end
    /\ Corners[1] # Corners[2]
    /\ from_terminal.direction.ang = 30

\* The segment of the path attached to its first point (forwards) or to its
\* last point (backwards), as a vector from that end.
FirstSegment == Sub(Path[2], Path[1])
LastSegment == Sub(Path[Len(Path) - 1], Path[Len(Path)])

\* The first point of the path that differs from its first point, and the
\* last that differs from its last point (the end itself when there is none).
FirstDistinct ==
    IF \E i \in 1..Len(Path) : Path[i] # Path[1]
    THEN Path[CHOOSE i \in 1..Len(Path) :
                 /\ Path[i] # Path[1]
                 /\ \A j \in 1..(i - 1) : Path[j] = Path[1]]
    ELSE Path[1]
LastDistinct ==
    IF \E i \in 1..Len(Path) : Path[i] # Path[Len(Path)]
    THEN Path[CHOOSE i \in 1..Len(Path) :
                 /\ Path[i] # Path[Len(Path)]
                 /\ \A j \in (i + 1)..Len(Path) : Path[j] = Path[Len(Path)]]
    ELSE Path[Len(Path)]

\* A vector that points against a direction.
Against(segment, direction) == Dot(Cart(direction), segment) < 0

OnExitRay(p, end, direction) ==
    /\ Cart(direction)[1] * (p[2] - end[2]) = Cart(direction)[2] * (p[1] - end[1])
    /\ Dot(Cart(direction), Sub(p, end)) >= 0

OnBothExitRays(p) ==
    /\ OnExitRay(p, from_terminal.end, from_cardinal)
    /\ OnExitRay(p, to_terminal.end, to_cardinal)

\* Neither end lies strictly behind the exit plane of the other terminal,
\* which is when the two exit rays meet.
RaysMeet ==
    /\ Dot(Cart(from_cardinal), Sub(to_terminal.end, from_terminal.end)) >= 0
    /\ Dot(Cart(to_cardinal), Sub(from_terminal.end, to_terminal.end)) >= 0

----------------------------------------------------------------------------
(* manim_eng.circuit.circuit.Circuit *)

\* component.terminals
terminals_of(component) ==
    IF component = "c1" THEN <<"a1", "a2">> ELSE <<"n1">>

Range(seq) == {seq[i] : i \in DOMAIN seq}

OwnershipError == "ValueError: terminal does not belong to this circuit"
IdenticalError == "ValueError: from_terminal and to_terminal are identical"
AttributeError == "AttributeError: corner_points"

NoWire == [from_terminal |-> "none", to_terminal |-> "none"]

\* _WireBase.__init__ without its test for identical terminals.
WireBase_init_unchecked(from, to) ==
    [wire |-> [from_terminal |-> from, to_terminal |-> to], err |-> NoError]

\* _WireBase.__init__: the wire constructed, or the error raised.
WireBase_init(from, to) ==
    IF from = to
    THEN [wire |-> NoWire, err |-> IdenticalError]
    ELSE [wire |-> [from_terminal |-> from, to_terminal |-> to], err |-> NoError]

\* Wire.__init__
Wire(from, to) == WireBase_init(from, to)

\* ManualWire.__init__: the base constructor builds the wire's points from
\* self.corner_points, which is assigned only after it returns.
ManualWire(from, to) ==
    LET base == WireBase_init(from, to)
    IN  IF base.err # NoError THEN base
        ELSE [wire |-> NoWire, err |-> AttributeError]

\* Circuit.elements, as a set
elements(comps, nds) == comps \cup nds

\* The list built by the loop of _collapse_components_and_terminals_to_terminals.
RECURSIVE collected_terminals(_)
collected_terminals(items) ==
    IF items = <<>> THEN <<>>
    ELSE LET rest == collected_terminals(SubSeq(items, 1, Len(items) - 1))
             last == items[Len(items)]
         IN  IF last \in ElementIds THEN rest \o terminals_of(last)
             ELSE Append(rest, last)

\* Circuit._collapse_components_and_terminals_to_terminals: list(set(...)),
\* whose order is not used.
collapse_components_and_terminals_to_terminals(items) ==
    Range(collected_terminals(items))

\* The ownership check passing as soon as one of the terminals is owned.
check_some_terminal_belongs_to_this_circuit(terminals, comps, nds) ==
    \/ terminals = {}
    \/ \E c \in elements(comps, nds) : Range(terminals_of(c)) \cap terminals # {}

\* Circuit.__check_terminals_all_belong_to_this_circuit: TRUE when it
\* returns, FALSE when it raises.
check_terminals_all_belong_to_this_circuit(terminals, comps, nds) ==
    LET owned_terminal_set ==
            UNION {Range(terminals_of(c)) : c \in elements(comps, nds)}
        terminals_not_owned == terminals \ owned_terminal_set
    IN  Cardinality(terminals_not_owned) = 0

\* The wires of ws whose positions are not in `gone`, in their order:
\* self.wires.remove(*to_remove).
wires_remove(ws, gone) ==
    LET keep == DOMAIN ws \ gone
    IN  [k \in 1..Cardinality(keep) |->
            ws[CHOOSE i \in keep : Cardinality({j \in keep : j <= i}) = k]]

\* The selection of wires by their start alone.
get_wires_start_only(ws, terminals) ==
    {i \in DOMAIN ws : ws[i].from_terminal \in terminals}

\* The selection of wires by their end alone.
get_wires_end_only(ws, terminals) ==
    {i \in DOMAIN ws : ws[i].to_terminal \in terminals}

\* Circuit.__get_wires_from_terminal_condition with the condition of
\* disconnect (start and end) and with that of isolate (start or end): the
\* positions of the wires selected.
get_wires_start_and_end(ws, terminals) ==
    {i \in DOMAIN ws :
        ws[i].from_terminal \in terminals /\ ws[i].to_terminal \in terminals}

get_wires_start_or_end(ws, terminals) ==
    {i \in DOMAIN ws :
        ws[i].from_terminal \in terminals \/ ws[i].to_terminal \in terminals}

\* Terminal._increment_connection_count and _decrement_connection_count, on
\* the counts of all the terminals.
increment_connection_count(counts, t) == [counts EXCEPT ![t] = @ + 1]
decrement_connection_count(counts, t) == [counts EXCEPT ![t] = @ - 1]

\* WireBase.attach and WireBase.detach
attach(counts, wire) ==
    increment_connection_count(
        increment_connection_count(counts, wire.from_terminal), wire.to_terminal)
detach(counts, wire) ==
    decrement_connection_count(
        decrement_connection_count(counts, wire.from_terminal), wire.to_terminal)

\* for wire in to_remove: wire.detach()
RECURSIVE detach_each(_, _, _)
detach_each(counts, ws, to_remove) ==
    IF to_remove = {} THEN counts
    ELSE LET i == CHOOSE j \in to_remove : \A k \in to_remove : j <= k
         IN  detach_each(detach(counts, ws[i]), ws, to_remove \ {i})

\* Circuit.add: the new <<components, nodes>>.
add(comps, nds, component) ==
    IF component \in NodeIds
    THEN <<comps, nds \cup {component}>>
    ELSE <<comps \cup {component}, nds>>

\* Circuit.remove: self.components.remove(*components).
remove(comps, nds, component) == <<comps \ {component}, nds>>

\* connect adding the wire from to_terminal to from_terminal.
connect_reversed(ws, comps, nds, from, to) ==
    IF ~check_terminals_all_belong_to_this_circuit({from, to}, comps, nds)
    THEN [wires |-> ws, err |-> OwnershipError]
    ELSE IF Wire(to, from).err # NoError
    THEN [wires |-> ws, err |-> Wire(to, from).err]
    ELSE [wires |-> Append(ws, Wire(to, from).wire), err |-> NoError]

\* Circuit.connect: the new wires and the error raised.
connect(ws, comps, nds, from, to) ==
    IF ~check_terminals_all_belong_to_this_circuit({from, to}, comps, nds)
    THEN [wires |-> ws, err |-> OwnershipError]
    ELSE LET made == Wire(from, to)
         IN  IF made.err # NoError THEN [wires |-> ws, err |-> made.err]
             ELSE [wires |-> Append(ws, made.wire), err |-> NoError]

\* Circuit.connect, the counts it leaves: the new wire is attached.
connect_counts(counts, ws, comps, nds, from, to) ==
    IF connect(ws, comps, nds, from, to).err # NoError THEN counts
    ELSE attach(counts, Wire(from, to).wire)

\* Circuit.__animate_connect: the animation is built, not played, and the
\* new wire is attached only when mn.Create plays on it.
animate_connect(ws, comps, nds, from, to) ==
    IF ~check_terminals_all_belong_to_this_circuit({from, to}, comps, nds)
    THEN [wires |-> ws, err |-> OwnershipError]
    ELSE IF from = to THEN [wires |-> ws, err |-> IdenticalError]
    ELSE LET new_wire == Wire(from, to)
         IN  IF new_wire.err # NoError THEN [wires |-> ws, err |-> new_wire.err]
             ELSE [wires |-> Append(ws, new_wire.wire), err |-> NoError]

\* Circuit.disconnect
disconnect(ws, comps, nds, items) ==
    LET terminals == collapse_components_and_terminals_to_terminals(items)
    IN  IF ~check_terminals_all_belong_to_this_circuit(terminals, comps, nds)
        THEN [wires |-> ws, err |-> OwnershipError]
        ELSE [wires |-> wires_remove(ws, get_wires_start_and_end(ws, terminals)),
              err |-> NoError]

\* Circuit.disconnect, the counts it leaves: the wires removed are detached.
disconnect_counts(counts, ws, comps, nds, items) ==
    LET terminals == collapse_components_and_terminals_to_terminals(items)
    IN  IF disconnect(ws, comps, nds, items).err # NoError THEN counts
        ELSE detach_each(counts, ws, get_wires_start_and_end(ws, terminals))

\* Circuit.__animate_disconnect
animate_disconnect(ws, comps, nds, items) ==
    LET terminals == collapse_components_and_terminals_to_terminals(items)
    IN  IF ~check_terminals_all_belong_to_this_circuit(terminals, comps, nds)
        THEN [wires |-> ws, err |-> OwnershipError]
        ELSE [wires |-> wires_remove(ws, get_wires_start_and_end(ws, terminals)),
              err |-> NoError]

\* Circuit.isolate
isolate(ws, comps, nds, items) ==
    LET terminals == collapse_components_and_terminals_to_terminals(items)
    IN  IF ~check_terminals_all_belong_to_this_circuit(terminals, comps, nds)
        THEN [wires |-> ws, err |-> OwnershipError]
        ELSE [wires |-> wires_remove(ws, get_wires_start_or_end(ws, terminals)),
              err |-> NoError]

\* Circuit.isolate, the counts it leaves: the wires removed are not detached.
isolate_counts(counts, ws, comps, nds, items) == counts

\* Circuit.__animate_isolate
animate_isolate(ws, comps, nds, items) ==
    LET terminals == collapse_components_and_terminals_to_terminals(items)
    IN  IF ~check_terminals_all_belong_to_this_circuit(terminals, comps, nds)
        THEN [wires |-> ws, err |-> OwnershipError]
        ELSE [wires |-> wires_remove(ws, get_wires_start_or_end(ws, terminals)),
              err |-> NoError]

----------------------------------------------------------------------------
(* A circuit and the calls made on it *)

\* The argument lists of disconnect and isolate.
ItemLists == UNION {[1..k -> ElementIds \cup TerminalIds] : k \in 0..MaxItems}

InitCircuit ==
    /\ EmptyCircuit
    /\ RestIdle
    /\ vector = ZeroVector
    /\ vector_original = ZeroVector
    /\ margin = DefaultMargin
    /\ snapped = NoVector
    /\ resnapped = NoVector
    /\ from_terminal = NoTerminal
    /\ to_terminal = NoTerminal
    /\ wire_points = <<>>
    /\ wire_updates = 0

\* The counts stay within the bound of the model.
WithinConnections(counts) ==
    \A t \in TerminalIds : counts[t] \in -MaxConnections..MaxConnections

\* What every call records.  Calls are made one after the other: the record
\* of a call is dropped (Return) before the next call is made.
Called(name, arguments, outcome) ==
    /\ op = Idle
    /\ op' = name
    /\ args' = arguments
    /\ err' = outcome.err
    /\ wires' = outcome.wires
    /\ wires_before' = wires
    /\ Len(outcome.wires) <= MaxWires
    /\ UNCHANGED <<cardVars, wireVars, restVars>>

CircuitAdd ==
    \E c \in ElementIds :
        /\ components' = add(components, nodes, c)[1]
        /\ nodes' = add(components, nodes, c)[2]
        /\ Called("add", <<c>>, [wires |-> wires, err |-> NoError])
        /\ UNCHANGED connection_count

CircuitRemove ==
    \E c \in ElementIds :
        /\ components' = remove(components, nodes, c)[1]
        /\ nodes' = remove(components, nodes, c)[2]
        /\ Called("remove", <<c>>, [wires |-> wires, err |-> NoError])
        /\ UNCHANGED connection_count

NewWire ==
    \E a, b \in TerminalIds :
        /\ Called("Wire", <<a, b>>, [wires |-> wires, err |-> Wire(a, b).err])
        /\ UNCHANGED <<components, nodes, connection_count>>

NewManualWire ==
    \E a, b \in TerminalIds :
        /\ Called("ManualWire", <<a, b>>,
                  [wires |-> wires, err |-> ManualWire(a, b).err])
        /\ UNCHANGED <<components, nodes, connection_count>>

Connect ==
    \E a, b \in TerminalIds :
        /\ Called("connect", <<a, b>>, connect(wires, components, nodes, a, b))
        /\ connection_count' =
               connect_counts(connection_count, wires, components, nodes, a, b)
        /\ WithinConnections(connection_count')
        /\ UNCHANGED <<components, nodes>>

AnimateConnect ==
    \E a, b \in TerminalIds :
        /\ Called("animate.connect", <<a, b>>,
                  animate_connect(wires, components, nodes, a, b))
        /\ UNCHANGED <<components, nodes, connection_count>>

Disconnect ==
    \E items \in ItemLists :
        /\ Called("disconnect", items, disconnect(wires, components, nodes, items))
        /\ connection_count' =
               disconnect_counts(connection_count, wires, components, nodes, items)
        /\ WithinConnections(connection_count')
        /\ UNCHANGED <<components, nodes>>

AnimateDisconnect ==
    \E items \in ItemLists :
        /\ Called("animate.disconnect", items,
                  animate_disconnect(wires, components, nodes, items))
        /\ UNCHANGED <<components, nodes, connection_count>>

Isolate ==
    \E items \in ItemLists :
        /\ Called("isolate", items, isolate(wires, components, nodes, items))
        /\ connection_count' =
               isolate_counts(connection_count, wires, components, nodes, items)
        /\ UNCHANGED <<components, nodes>>

AnimateIsolate ==
    \E items \in ItemLists :
        /\ Called("animate.isolate", items,
                  animate_isolate(wires, components, nodes, items))
        /\ UNCHANGED <<components, nodes, connection_count>>

Return ==
    /\ op # Idle
    /\ op' = Idle
    /\ args' = <<>>
    /\ err' = NoError
    /\ wires_before' = wires
    /\ UNCHANGED <<components, nodes, wires, connection_count>>
    /\ UNCHANGED <<cardVars, wireVars, restVars>>

NextCircuit ==
    \/ Return
    \/ CircuitAdd
    \/ CircuitRemove
    \/ NewWire
    \/ NewManualWire
    \/ Connect
    \/ AnimateConnect
    \/ Disconnect
    \/ AnimateDisconnect
    \/ Isolate
    \/ AnimateIsolate

SpecCircuit == InitCircuit /\ [][NextCircuit]_vars

----------------------------------------------------------------------------
(* Properties of the circuit *)

ConnectOps == {"connect", "animate.connect"}
DisconnectOps == {"disconnect", "animate.disconnect"}
IsolateOps == {"isolate", "animate.isolate"}

\* The terminal belongs to a component or node that is in the circuit.
Owned(t) == \E c \in components \cup nodes : t \in Range(terminals_of(c))

\* The terminals the last call was passed, directly or through a component.
PassedTerminals ==
    IF op \in ConnectOps THEN {args[1], args[2]}
    ELSE {t \in TerminalIds :
            \E i \in DOMAIN args :
                \/ args[i] = t
                \/ args[i] \in ElementIds /\ t \in Range(terminals_of(args[i]))}

WireBetween(a, b) == [from_terminal |-> a, to_terminal |-> b]

\* C1 as claimed: Wire(t, t) and ManualWire(t, t) fail with the identical
\* terminals error, and so do connect(t, t) and animate.connect(t, t), for
\* every terminal t, leaving the wires as they were.
C1_IdenticalTerminalsAlwaysIdenticalError ==
    /\ (op \in {"Wire", "ManualWire"} /\ args[1] = args[2]) =>
           err = IdenticalError
    /\ (op \in ConnectOps /\ args[1] = args[2]) =>
           (err = IdenticalError /\ wires = wires_before)

\* C1, amended: Wire(t, t) and ManualWire(t, t) fail with the identical
\* terminals error for every terminal t; connect(t, t) and
\* animate.connect(t, t) fail with it when t belongs to a component or node of
\* the circuit and with the ownership error when it does not; the wires are
\* as they were in both cases.
C1_IdenticalTerminalsRejected ==
    /\ (op \in {"Wire", "ManualWire"} /\ args[1] = args[2]) =>
           err = IdenticalError
    /\ (op \in ConnectOps /\ args[1] = args[2]) =>
           /\ wires = wires_before
           /\ Owned(args[1]) => err = IdenticalError
           /\ ~Owned(args[1]) => err = OwnershipError

C1_Witness ==
    /\ op = "connect"
    /\ args = <<"a1", "a1">>
    /\ Owned("a1")
    /\ err = IdenticalError
    /\ wires # <<>>

\* C8: connect(a, b) and animate.connect(a, b) with two different terminals
\* of components or nodes of the circuit return, and the wires are then the
\* wires there were followed by one wire from a to b.
C8_ConnectAddsOneWire ==
    (/\ op \in ConnectOps
     /\ args[1] # args[2]
     /\ Owned(args[1])
     /\ Owned(args[2])) =>
        /\ err = NoError
        /\ wires = Append(wires_before, WireBetween(args[1], args[2]))

C8_Witness ==
    /\ op = "animate.connect"
    /\ args = <<"a2", "n1">>
    /\ err = NoError
    /\ wires = <<WireBetween("a1", "a2"), WireBetween("a2", "n1")>>

\* C9: connect, disconnect and isolate, plain or animated, raise a
\* ValueError when one of the terminals passed, directly or through a
\* component, belongs to no component or node of the circuit, and the wires
\* are as they were.
C9_UnownedTerminalRejected ==
    (/\ op \in ConnectOps \cup DisconnectOps \cup IsolateOps
     /\ \E t \in PassedTerminals : ~Owned(t)) =>
        /\ err = OwnershipError
        /\ wires = wires_before

C9_Witness ==
    /\ op = "animate.isolate"
    /\ args = <<"c1", "n1">>
    /\ "c1" \in components
    /\ "n" \notin nodes
    /\ err = OwnershipError
    /\ wires = <<WireBetween("a1", "a2")>>

\* C10: disconnect(items) and animate.disconnect(items), when every terminal
\* passed is owned, remove the wires that have both ends among the terminals
\* passed and the terminals of the components passed, and keep the others in
\* their order.
C10_DisconnectRemovesWiresWithin ==
    (/\ op \in DisconnectOps
     /\ \A t \in PassedTerminals : Owned(t)) =>
        LET Stays(w) == ~(/\ w.from_terminal \in PassedTerminals
                          /\ w.to_terminal \in PassedTerminals)
        IN  /\ err = NoError
            /\ wires = SelectSeq(wires_before, Stays)

\* A component and one of its terminals are passed: the wire across the
\* component goes, the wire to the node stays.
C10_Witness ==
    /\ op = "disconnect"
    /\ args = <<"c1", "a1">>
    /\ err = NoError
    /\ wires_before = <<WireBetween("a1", "a2"), WireBetween("a2", "n1")>>
    /\ wires = <<WireBetween("a2", "n1")>>

\* C11: isolate(items) and animate.isolate(items), when every terminal
\* passed is owned, remove the wires that have at least one end among the
\* terminals passed and the terminals of the components passed, and keep the
\* wires with neither end among them, in their order.
C11_IsolateRemovesWiresTouching ==
    (/\ op \in IsolateOps
     /\ \A t \in PassedTerminals : Owned(t)) =>
        LET Apart(w) == /\ w.from_terminal \notin PassedTerminals
                        /\ w.to_terminal \notin PassedTerminals
        IN  /\ err = NoError
            /\ wires = SelectSeq(wires_before, Apart)

\* One terminal of the component is isolated: the wire that starts at it
\* goes, the wire between the other terminal and the node stays.
C11_Witness ==
    /\ op = "animate.isolate"
    /\ args = <<"a1">>
    /\ err = NoError
    /\ wires_before = <<WireBetween("a1", "a2"), WireBetween("a2", "n1")>>
    /\ wires = <<WireBetween("a2", "n1")>>

\* C12 as claimed: after remove(c) the component or node c is not among the
\* elements of the circuit.
C12_RemoveTakesOutOfElements ==
    op = "remove" => args[1] \notin elements(components, nodes)

----------------------------------------------------------------------------
(* cardinalised applied once and then again to its own result *)

InitCard ==
    /\ vector \in Vectors
    /\ vector_original = vector
    /\ margin \in Margins
    /\ snapped = NoVector
    /\ resnapped = NoVector
    /\ WireIdle
    /\ EmptyCircuit
    /\ RestIdle

Cardinalise ==
    /\ snapped = NoVector
    /\ snapped' = cardinalised(vector, margin)
    /\ UNCHANGED <<vector, vector_original, margin, resnapped, wireVars, circuitVars, restVars>>

CardinaliseAgain ==
    /\ snapped # NoVector
    /\ resnapped = NoVector
    /\ resnapped' = cardinalised(snapped, margin)
    /\ UNCHANGED <<vector, vector_original, margin, snapped, wireVars, circuitVars, restVars>>

NextCard == Cardinalise \/ CardinaliseAgain

SpecCard == InitCard /\ [][NextCard]_vars

----------------------------------------------------------------------------
(* Properties of cardinalised *)

\* The angular distance, in degrees, from angle a to the nearest axis.
AxisDistance(a) == LET r == a % 90 IN IF r <= 45 THEN r ELSE 90 - r

\* The axis (0, 90, 180 or -90) nearest to angle a; exactly between two
\* axes it is the horizontal one.
NearestAxis(a) ==
    LET r == a % 90
        below == a - r
        above == below + 90
    IN  NormAngle(IF r < 45 THEN below
                  ELSE IF r > 45 THEN above
                  ELSE IF below % 180 = 0 THEN below ELSE above)

\* C6: snapping is idempotent: for every vector and every margin in
\* (0, pi/4), snapping the snapped vector again, with the same margin, gives
\* the snapped vector.
C6_SnapIdempotent ==
    (resnapped # NoVector /\ margin < 45) => resnapped = snapped

C6_Witness ==
    /\ resnapped # NoVector
    /\ margin < 45
    /\ snapped # vector
    /\ vector.mag = 2

\* C7: a vector whose angle is within margin (inclusive) of an axis comes back
\* as the vector along that nearest axis, with the magnitude of the argument
\* and pointing to the side of its dominant component; every other vector
\* comes back as it was; the argument itself is left as it was.
C7_SnapsToNearestAxis ==
    snapped # NoVector =>
        /\ snapped = IF AxisDistance(vector.ang) <= margin
                     THEN [mag |-> vector.mag, ang |-> NearestAxis(vector.ang)]
                     ELSE vector
        /\ vector = vector_original

C7_Witness ==
    /\ vector = [mag |-> 2, ang |-> -175]
    /\ margin = 5
    /\ snapped = [mag |-> 2, ang |-> 180]

----------------------------------------------------------------------------
(* manim_eng.circuit.voltage.Voltage: the arc of the arrow *)

\* The ends of the two terminals and the middle point lie at whole
\* coordinates in -MaxArcCoord..MaxArcCoord.
MaxArcCoord == 1

ArcPoints == {<<i, j>> : i, j \in -MaxArcCoord..MaxArcCoord}

LinAlgError == "LinAlgError: Singular matrix"

\* np.cross(v, mn.OUT) of a vector of the plane
cross_OUT(v) == <<v[2], -v[1]>>

NormSq(v) == Dot(v, v)

\* An angle 2 * arcsin(sqrt(num / den)) made negative when sign is -1.
\* arcsin is increasing on [0, 1], where it goes from 0 to pi / 2.
AngleOfHalfSine(num, den, sign) == [sin_sq_num |-> num, sin_sq_den |-> den, sign |-> sign]

\* 2 * arcsin(length / radius), half the radius being forgotten.
swept_angle_of_whole_radius(length_sq, radius_sq_num, radius_sq_den) ==
    AngleOfHalfSine(length_sq * radius_sq_den, radius_sq_num, 1)

\* 2 * np.arcsin(length / (2 * radius)), the squares of length and radius
\* given, the latter as a fraction.
swept_angle(length_sq, radius_sq_num, radius_sq_den) ==
    AngleOfHalfSine(length_sq * radius_sq_den, 4 * radius_sq_num, 1)

\* The solver with the bisector of AB run along AB instead of across it.
arc_details_bisector_along_chord(from_end, to_end, direction, middle) ==
    LET chord_ab == Sub(middle, from_end)
        chord_bc == Sub(to_end, middle)
        perp_bc == cross_OUT(chord_bc)
        y == Sub(Add(middle, to_end), Add(from_end, middle))
        det == perp_bc[1] * chord_ab[2] - chord_ab[1] * perp_bc[2]
        alpha == perp_bc[1] * y[2] - perp_bc[2] * y[1]
        centre == Add(<<det * (from_end[1] + middle[1]), det * (from_end[2] + middle[2])>>,
                      <<alpha * chord_ab[1], alpha * chord_ab[2]>>)
        to_middle == Sub(centre, <<2 * det * middle[1], 2 * det * middle[2]>>)
    IN  IF det = 0 THEN [err |-> LinAlgError]
        ELSE [err |-> NoError, centre_num |-> centre, centre_den |-> 2 * det,
              radius_sq_num |-> NormSq(to_middle),
              radius_sq_den |-> 4 * det * det,
              angle |-> swept_angle(NormSq(direction), NormSq(to_middle), 4 * det * det)]

\* Voltage._get_arc_details_for_middle_point.  The two midpoints are kept
\* doubled (2 * mid_ab = A + B, 2 * mid_bc = B + C), so that y below is twice
\* the y of the code and x[0] is alpha / (2 * det); the centre is the pair
\* centre_num divided by centre_den, the square of the radius
\* radius_sq_num / radius_sq_den.
get_arc_details_for_middle_point(from_end, to_end, direction, middle) ==
    LET chord_ab == Sub(middle, from_end)
        chord_bc == Sub(to_end, middle)
        twice_mid_ab == Add(Add(from_end, from_end), chord_ab)
        twice_mid_bc == Add(Add(middle, middle), chord_bc)
        perp_ab == cross_OUT(chord_ab)
        perp_bc == cross_OUT(chord_bc)
        \* matrix = [[m11, m12], [m21, m22]]
        m11 == perp_ab[1]
        m12 == -perp_bc[1]
        m21 == perp_ab[2]
        m22 == -perp_bc[2]
        y == Sub(twice_mid_bc, twice_mid_ab)
        det == m11 * m22 - m12 * m21
        \* np.linalg.inv(matrix) @ y, first component, times 2 * det
        alpha == m22 * y[1] - m12 * y[2]
        centre == Add(<<det * twice_mid_ab[1], det * twice_mid_ab[2]>>,
                      <<alpha * perp_ab[1], alpha * perp_ab[2]>>)
        to_middle == Sub(centre, <<2 * det * middle[1], 2 * det * middle[2]>>)
    IN  IF det = 0 THEN [err |-> LinAlgError]
        ELSE [err |-> NoError, centre_num |-> centre, centre_den |-> 2 * det,
              radius_sq_num |-> NormSq(to_middle),
              radius_sq_den |-> 4 * det * det,
              angle |-> swept_angle(NormSq(direction), NormSq(to_middle), 4 * det * det)]

\* The arrow drawn whatever the sense of the voltage.
new_arrow_sense_ignored(v, angle) ==
    [start |-> v.from_end, end |-> v.to_end, path_arc |-> angle]

\* Voltage.__update_arrow, from the angle on: mn.Arrow(start, end, path_arc).
new_arrow(v, angle) ==
    [start |-> v.from_end, end |-> v.to_end,
     path_arc |-> IF v.clockwise THEN [angle EXCEPT !.sign = -1] ELSE angle]

Voltages ==
    {[from_end |-> a, to_end |-> c, clockwise |-> cw, direction |-> Sub(c, a)] :
        a \in ArcPoints, c \in ArcPoints, cw \in BOOLEAN}

InitArc ==
    /\ voltage \in Voltages
    /\ middle_point \in ArcPoints
    /\ arc_details = NoArc
    /\ arrow = NoArrow
    /\ CardIdle
    /\ WireIdle
    /\ EmptyCircuit
    /\ NodeIdle
    /\ MoreIdle

\* Voltage.__update_arrow with a component to avoid, from the middle point on.
UpdateArrow ==
    /\ arc_details = NoArc
    /\ LET details == get_arc_details_for_middle_point(
                          voltage.from_end, voltage.to_end, voltage.direction,
                          middle_point)
       IN  /\ arc_details' = details
           /\ arrow' = IF details.err = NoError
                       THEN new_arrow(voltage, details.angle)
                       ELSE arrow
    /\ UNCHANGED <<voltage, middle_point, cardVars, wireVars, circuitVars, nodeVars, moreVars>>

NextArc == UpdateArrow

SpecArc == InitArc /\ [][NextArc]_vars

----------------------------------------------------------------------------
(* Properties of the arc *)

ArcComputed == arc_details # NoArc /\ arc_details.err = NoError

\* Twice the signed area of the triangle a, b, c: positive when c is to the
\* left of the line from a to b, zero when the three are collinear.
Area2(a, b, c) ==
    (b[1] - a[1]) * (c[2] - a[2]) - (b[2] - a[2]) * (c[1] - a[1])

Collinear == Area2(voltage.from_end, middle_point, voltage.to_end) = 0

\* The square of the distance from the centre computed to p, times the
\* square of centre_den.
CentreDistSq(p) ==
    NormSq(Sub(arc_details.centre_num,
               <<arc_details.centre_den * p[1], arc_details.centre_den * p[2]>>))

\* C13: for three non-collinear points the solver computes a centre that is
\* as far from the from end as from the middle point and from the to end, and
\* that distance is the radius its angle 2 * arcsin(chord / (2 * radius)) is
\* made of.
C13_CentreEquidistant ==
    (arc_details # NoArc /\ ~Collinear) =>
        /\ arc_details.err = NoError
        /\ CentreDistSq(voltage.from_end) = CentreDistSq(middle_point)
        /\ CentreDistSq(voltage.to_end) = CentreDistSq(middle_point)
        /\ arc_details.radius_sq_num = CentreDistSq(middle_point)
        /\ arc_details.radius_sq_den = arc_details.centre_den * arc_details.centre_den
        /\ arc_details.angle.sin_sq_num * 4 * CentreDistSq(voltage.from_end)
             = arc_details.angle.sin_sq_den
                 * NormSq(Sub(voltage.to_end, voltage.from_end))
                 * arc_details.centre_den * arc_details.centre_den

\* A centre that is not a grid point.
C13_Witness ==
    /\ ArcComputed
    /\ voltage.from_end = <<-1, -1>>
    /\ middle_point = <<0, 1>>
    /\ voltage.to_end = <<1, 0>>
    /\ arc_details.centre_num[1] % arc_details.centre_den # 0

\* The angle at the middle point between the two ends is a right angle, is
\* obtuse.
RightAtMiddle ==
    Dot(Sub(voltage.from_end, middle_point), Sub(voltage.to_end, middle_point)) = 0
ObtuseAtMiddle ==
    Dot(Sub(voltage.from_end, middle_point), Sub(voltage.to_end, middle_point)) < 0

\* C14 as claimed: the angle returned is strictly less than pi, the chord
\* strictly shorter than the diameter.
C14_AngleBelowPi ==
    ArcComputed => arc_details.angle.sin_sq_num < arc_details.angle.sin_sq_den

\* C14, amended: the angle returned is greater than 0 and at most pi, the
\* non-reflex solution; it is pi exactly when the chord is a diameter, which
\* is when the middle point sees the two ends at a right angle.
C14_AngleAtMostPi ==
    ArcComputed =>
        /\ arc_details.angle.sin_sq_num > 0
        /\ arc_details.angle.sin_sq_den > 0
        /\ arc_details.angle.sin_sq_num <= arc_details.angle.sin_sq_den
        /\ (arc_details.angle.sin_sq_num = arc_details.angle.sin_sq_den) <=> RightAtMiddle

C14_Witness ==
    /\ ArcComputed
    /\ RightAtMiddle
    /\ arc_details.angle.sin_sq_num = arc_details.angle.sin_sq_den
    /\ voltage.from_end = <<-1, 0>>
    /\ voltage.to_end = <<1, 0>>

\* The side of the chord the arc of an arrow bows to: 1 for the left of the
\* line from start to end, -1 for the right.  An arc swept anticlockwise has
\* its centre on the left and bows to the right.
BowSide(a) == -a.path_arc.sign

\* p is on the arc of the arrow a: it is on the side the arc bows to and sees
\* the chord from start to end at the angle pi - angle / 2, which is obtuse
\* or right and has the sine of angle / 2.
OnArc(p, a) ==
    /\ Sgn(Area2(a.start, a.end, p)) = BowSide(a)
    /\ Dot(Sub(a.start, p), Sub(a.end, p)) <= 0
    /\ Area2(p, a.start, a.end) * Area2(p, a.start, a.end) * a.path_arc.sin_sq_den
         = a.path_arc.sin_sq_num * NormSq(Sub(a.start, p)) * NormSq(Sub(a.end, p))

\* The side of the chord the voltage is to bow to: left when clockwise.
SenseSide == IF voltage.clockwise THEN 1 ELSE -1

----------------------------------------------------------------------------
(* manim_eng.components.node.Node *)

\* A node is given at most MaxNodeTerminals terminals.
MaxNodeTerminals == 3

AUTOBLOBBING_BLOB_THRESHOLD == 2

\* mn.RIGHT
RIGHT == [mag |-> 1, ang |-> 0]

\* What Node.get is passed: an angle (a float) or a vector.
NodeAngles == {0, 90, 180, -90}
GetRequests ==
    {[is_float |-> TRUE, angle |-> a, vector |-> ZeroVector] : a \in NodeAngles}
    \cup {[is_float |-> FALSE, angle |-> 0, vector |-> [mag |-> m, ang |-> a]] :
            m \in 1..2, a \in NodeAngles}

\* np.allclose of two unit vectors at whole angles.
allclose(u, v) == u.mag = v.mag /\ u.ang = v.ang

\* Node._set_blob_visibility
private_set_blob_visibility(n, visible) == [n EXCEPT !.blob_visible = visible]

\* Node._autoblob_if_autoblobbing
autoblob_if_autoblobbing(n) ==
    IF n.autoblob
    THEN private_set_blob_visibility(
             n, Len(n.terminals) > AUTOBLOBBING_BLOB_THRESHOLD)
    ELSE n

\* Node.__init__ and Node._construct: the blob is a Dot of fill opacity 1.
Node_init(open_, autoblob) ==
    autoblob_if_autoblobbing(
        [open |-> open_,
         autoblob |-> IF ~open_ THEN autoblob ELSE FALSE,
         blob_visible |-> TRUE,
         terminals |-> <<>>])

\* self._terminals.add(terminal): the terminal joins those self.terminals
\* lists.
terminals_add(n, terminal) == [n EXCEPT !.terminals = Append(@, terminal)]

\* Node.get with a terminal created at every call.
Node_get_always_new(n, request) ==
    [node |-> autoblob_if_autoblobbing(
                  terminals_add(n, [id |-> Len(n.terminals) + 1,
                                    direction |-> normalised(request.vector)])),
     returned |-> Len(n.terminals) + 1]

\* Node.get: the node afterwards and the id of the terminal returned.  A
\* terminal is known by its id, the order in which it was created.
Node_get(n, request) ==
    LET direction == IF request.is_float
                     THEN rotate_vector(RIGHT, request.angle)
                     ELSE normalised(request.vector)
        found == {i \in DOMAIN n.terminals :
                    allclose(n.terminals[i].direction, direction)}
    IN  IF found # {}
        THEN [node |-> n,
              returned |-> n.terminals[CHOOSE i \in found : \A j \in found : i <= j].id]
        ELSE LET to_return == [id |-> Len(n.terminals) + 1, direction |-> direction]
             IN  [node |-> autoblob_if_autoblobbing(terminals_add(n, to_return)),
                  returned |-> to_return.id]

\* Node.set_autoblobbing
set_autoblobbing(n, autoblob) ==
    autoblob_if_autoblobbing([n EXCEPT !.autoblob = autoblob])

\* Node.enable_autoblobbing, Node.disable_autoblobbing
enable_autoblobbing(n) == set_autoblobbing(n, TRUE)
disable_autoblobbing(n) == set_autoblobbing(n, FALSE)

\* set_blob_visibility without its call of disable_autoblobbing.
set_blob_visibility_autoblobbing_kept(n, visible) ==
    private_set_blob_visibility(n, visible)

\* Node.set_blob_visibility; show_blob and hide_blob call it.
set_blob_visibility(n, visible) ==
    disable_autoblobbing(private_set_blob_visibility(n, visible))

\* Node.set_open; make_open and make_filled call it.
set_open(n, open_, reenable_autoblobbing) ==
    LET opened == [n EXCEPT !.open = open_]
    IN  IF open_ THEN disable_autoblobbing(opened)
        ELSE IF reenable_autoblobbing THEN enable_autoblobbing(opened)
        ELSE opened

InitNode ==
    /\ \E open_ \in BOOLEAN, autoblob \in BOOLEAN :
           /\ node = Node_init(open_, autoblob)
           /\ node_call = [name |-> "Node", arg |-> <<open_, autoblob>>, returned |-> 0]
    /\ node_before = NoNode
    /\ CardIdle
    /\ WireIdle
    /\ EmptyCircuit
    /\ ArcIdle
    /\ MoreIdle

NodeCalled(name, arg, after, returned) ==
    /\ node' = after
    /\ node_call' = [name |-> name, arg |-> arg, returned |-> returned]
    /\ node_before' = node
    /\ Len(after.terminals) <= MaxNodeTerminals
    /\ UNCHANGED <<cardVars, wireVars, circuitVars, arcVars, moreVars>>

NodeGet ==
    \E request \in GetRequests :
        NodeCalled("get", <<request>>, Node_get(node, request).node,
                   Node_get(node, request).returned)

NodeSetBlobVisibility ==
    \E visible \in BOOLEAN :
        NodeCalled("set_blob_visibility", <<visible>>,
                   set_blob_visibility(node, visible), 0)

NodeSetAutoblobbing ==
    \E autoblob \in BOOLEAN :
        NodeCalled("set_autoblobbing", <<autoblob>>,
                   set_autoblobbing(node, autoblob), 0)

NodeSetOpen ==
    \E open_ \in BOOLEAN, reenable \in BOOLEAN :
        NodeCalled("set_open", <<open_, reenable>>,
                   set_open(node, open_, reenable), 0)

NextNode ==
    \/ NodeGet
    \/ NodeSetBlobVisibility
    \/ NodeSetAutoblobbing
    \/ NodeSetOpen

SpecNode == InitNode /\ [][NextNode]_vars

----------------------------------------------------------------------------
(* Properties of the node *)

\* The unit vector a request to Node.get asks for.
RequestedDirection(request) ==
    [mag |-> 1, ang |-> IF request.is_float THEN request.angle ELSE request.vector.ang]

\* The terminals of the sequence ts that have the direction d.
WithDirection(ts, d) == {i \in DOMAIN ts : ts[i].direction = d}

\* C16: no two terminals of a node have the same direction; get returns the
\* terminal the node already had in the direction asked for, creating
\* nothing, and when there was none it adds exactly one terminal, in that
\* direction, and returns it.
C16_GetDeduplicatesByDirection ==
    /\ \A i, j \in DOMAIN node.terminals :
           (node.terminals[i].direction = node.terminals[j].direction
            \/ node.terminals[i].id = node.terminals[j].id) => i = j
    /\ node_call.name = "get" =>
           LET d == RequestedDirection(node_call.arg[1])
               had == WithDirection(node_before.terminals, d)
           IN  /\ \E i \in DOMAIN node.terminals :
                      /\ node.terminals[i].id = node_call.returned
                      /\ node.terminals[i].direction = d
               /\ had # {} =>
                      /\ node.terminals = node_before.terminals
                      /\ \E i \in had : node_before.terminals[i].id = node_call.returned
               /\ had = {} =>
                      /\ Len(node.terminals) = Len(node_before.terminals) + 1
                      /\ SubSeq(node.terminals, 1, Len(node_before.terminals))
                             = node_before.terminals

\* The terminal pointing up, created first, is asked for again with a vector
\* of length 2 after another terminal was created.
C16_Witness ==
    /\ node_call.name = "get"
    /\ node_call.arg[1] = [is_float |-> FALSE, angle |-> 0,
                           vector |-> [mag |-> 2, ang |-> 90]]
    /\ node_call.returned = 1
    /\ Len(node.terminals) = 2
    /\ node.terminals = node_before.terminals

\* C17 as claimed: an open node is never autoblobbing, and
\* set_autoblobbing(True) on an open node changes neither its autoblob flag
\* nor the visibility of its blob.
C17_OpenNodeNeverAutoblobbing ==
    /\ node.open => ~node.autoblob
    /\ (/\ node_call.name = "set_autoblobbing"
        /\ node_call.arg[1]
        /\ node_before.open) =>
           /\ node.autoblob = node_before.autoblob
           /\ node.blob_visible = node_before.blob_visible

-----------------------------------------------------------------------------
(* _config: ConfigBase, the configuration classes and tempconfig_eng.

   A Python value is [type, value, entries]: the name of its class, the
   scalar it holds (floats in hundredths) and, for a dict, its <<key, value>>
   entries in insertion order, keys distinct.  A configuration object holds
   its attributes the same way, in the order its class declares them. *)

MaxEntries == 3

Py(type, value) == [type |-> type, value |-> value, entries |-> <<>>]
Dict(entries) == [type |-> "dict", value |-> 0, entries |-> entries]
Object(type, attributes) == [type |-> type, value |-> 0, entries |-> attributes]

KeysOf(entries) == {entries[i][1] : i \in DOMAIN entries}
IndexOf(entries, key) == CHOOSE i \in DOMAIN entries : entries[i][1] = key
getattr(self, key) == self.entries[IndexOf(self.entries, key)][2]
setattr(self, key, value) ==
    [self EXCEPT !.entries[IndexOf(self.entries, key)] = <<key, value>>]

ConfigClasses == {"Root", "Table", "SubTable",
                  "ManimEngConfig", "AnchorDisplayConfig", "ComponentSymbolConfig"}

\* The classes a class is a subclass of, itself included: bool derives from
\* int, numpy's float64 from float.
bases(type) ==
    CASE type = "bool" -> {"bool", "int"}
      [] type = "float64" -> {"float64", "float"}
      [] type \in ConfigClasses -> {type, "ConfigBase"}
      [] OTHER -> {type}

isinstance(variable, type) == type \in bases(variable.type)

get_toml_type_from_python_variable(variable) ==
    CASE variable.type = "str" -> "string"
      [] variable.type = "int" -> "integer"
      [] variable.type = "float" -> "float"
      [] variable.type = "bool" -> "boolean"
      [] variable.type = "list" -> "array"
      [] variable.type = "dict" -> "table"
      [] OTHER -> "table"

InvalidEntry(invalid, path, got, expected) ==
    [raised |-> TRUE, invalid |-> invalid, path |-> path,
     got |-> got, expected |-> expected]

\* ConfigBase.load_from_dict: the object after the call and the error raised.
\* What the entries before the offending one have set stays set.
RECURSIVE load_from_dict(_, _, _)
load_from_dict(self, dictionary, table_prefix) ==
    IF dictionary = <<>> THEN [self |-> self, err |-> NoValueError]
    ELSE
        LET key == Head(dictionary)[1]
            value == Head(dictionary)[2]
            path == Append(table_prefix, key)
        IN  IF key \notin KeysOf(self.entries)
            THEN [self |-> self,
                  err |-> InvalidEntry(IF isinstance(value, "dict") THEN "table" ELSE "key",
                                       path, "none", "none")]
            ELSE
                LET current_value == getattr(self, key)
                IN  IF isinstance(value, "dict")
                    THEN IF ~isinstance(current_value, "ConfigBase")
                         THEN [self |-> self,
                               err |-> InvalidEntry("table", path, "none", "none")]
                         ELSE
                             LET loaded == load_from_dict(current_value, value.entries, path)
                                 after == setattr(self, key, loaded.self)
                             IN  IF loaded.err.raised
                                 THEN [self |-> after, err |-> loaded.err]
                                 ELSE load_from_dict(after, Tail(dictionary), table_prefix)
                    ELSE IF ~isinstance(value, current_value.type)
                         THEN [self |-> self,
                               err |-> InvalidEntry(
                                           "type", path,
                                           get_toml_type_from_python_variable(value),
                                           get_toml_type_from_python_variable(current_value))]
                         ELSE load_from_dict(setattr(self, key, value),
                                             Tail(dictionary), table_prefix)

\* as_dict: the attributes of the object, sub-configurations as nested dicts.
RECURSIVE as_dict_entries(_)
as_dict_entries(attributes) ==
    IF attributes = <<>> THEN <<>>
    ELSE
        LET key == Head(attributes)[1]
            current_value == Head(attributes)[2]
        IN  << <<key, IF isinstance(current_value, "ConfigBase")
                      THEN Dict(as_dict_entries(current_value.entries))
                      ELSE current_value>> >>
            \o as_dict_entries(Tail(attributes))

as_dict(self) == as_dict_entries(self.entries)

\* The classes of tests/test_config_base.py, as constructed.
SubTable ==
    Object("SubTable",
           << <<"var_int", Py("int", 4)>>, <<"var_float", Py("float", 314)>>,
              <<"var_str", Py("str", 1)>> >>)
Table ==
    Object("Table",
           << <<"var_int", Py("int", 4)>>, <<"var_float", Py("float", 314)>>,
              <<"var_str", Py("str", 1)>>, <<"subtable", SubTable>> >>)
Root ==
    Object("Root",
           << <<"var_int", Py("int", 4)>>, <<"var_float", Py("float", 314)>>,
              <<"var_str", Py("str", 1)>>, <<"table", Table>> >>)

\* The configuration classes, as constructed.  Colours are numbered in the
\* order the classes name them; current_arrow_radius is the product of a
\* numpy square root, a float64.
ComponentSymbolConfig ==
    Object("ComponentSymbolConfig",
           << <<"bipole_height", Py("float", 40)>>,
              <<"bipole_width", Py("float", 100)>>,
              <<"component_stroke_width", Py("float", 400)>>,
              <<"current_arrow_radius", Py("float64", 9)>>,
              <<"mark_font_size", Py("float", 3600)>>,
              <<"mark_cardinal_alignment_margin", Py("float", 9)>>,
              <<"terminal_length", Py("float", 50)>>,
              <<"wire_stroke_width", Py("float", 250)>> >>)
AnchorDisplayConfig ==
    Object("AnchorDisplayConfig",
           << <<"annotation_colour", Py("ManimColor", 1)>>,
              <<"centre_colour", Py("ManimColor", 2)>>,
              <<"current_colour", Py("ManimColor", 3)>>,
              <<"label_colour", Py("ManimColor", 4)>>,
              <<"radius", Py("float", 6)>>,
              <<"stroke_width", Py("float", 200)>>,
              <<"terminal_colour", Py("ManimColor", 5)>> >>)
ManimEngConfig ==
    Object("ManimEngConfig",
           << <<"anchor", AnchorDisplayConfig>>, <<"debug", Py("bool", 0)>>,
              <<"symbol", ComponentSymbolConfig>> >>)

\* ---- what the callers pass ----

Keys == {"var_int", "table", "subtable"}
Leaves == {Py("bool", 1), Py("int", 7), Py("float", 250)}

\* The dicts of exactly n entries, the entries of the nested dicts counted.
RECURSIVE DictsOfSize(_, _, _), EntriesOfSize(_, _, _)
DictsOfSize(n, keys, leaves) ==
    IF n = 0 THEN {<<>>}
    ELSE UNION {UNION {{<<entry>> \o rest :
                           rest \in {d \in DictsOfSize(n - s, keys, leaves) :
                                         entry[1] \notin KeysOf(d)}} :
                       entry \in EntriesOfSize(s, keys, leaves)} :
                s \in 1..n}
EntriesOfSize(s, keys, leaves) ==
    IF s = 1 THEN {<<key, value>> : key \in keys, value \in leaves \cup {Dict(<<>>)}}
    ELSE {<<key, Dict(d)>> : key \in keys, d \in DictsOfSize(s - 1, keys, leaves)}

Dictionaries == UNION {DictsOfSize(n, Keys, Leaves) : n \in 0..MaxEntries}

\* ---- load_from_dict called on a Root() ----

InitConfigBase ==
    /\ config = Root
    /\ config_call = NoConfigCall
    /\ config_before = NoConfig
    /\ with_block = Outside
    /\ CardIdle
    /\ WireIdle
    /\ EmptyCircuit
    /\ ArcIdle
    /\ NodeIdle
    /\ TerminalIdle
    /\ LateIdle

LoadFromDict ==
    /\ config_call = NoConfigCall
    /\ \E dictionary \in Dictionaries :
           LET loaded == load_from_dict(config, dictionary, <<>>)
           IN  /\ config' = loaded.self
               /\ config_call' = [name |-> "load_from_dict", dictionary |-> dictionary,
                                  err |-> loaded.err]
               /\ config_before' = config
    /\ UNCHANGED <<with_block, cardVars, wireVars, circuitVars, arcVars, nodeVars, terminalVars, lateVars>>

\* The call has returned or raised; the object stays as the call left it.
ConfigReturn ==
    /\ config_call # NoConfigCall
    /\ config_call' = NoConfigCall
    /\ config_before' = NoConfig
    /\ UNCHANGED <<config, with_block, cardVars, wireVars, circuitVars, arcVars, nodeVars, terminalVars, lateVars>>

NextConfigBase ==
    \/ LoadFromDict
    \/ ConfigReturn

SpecConfigBase == InitConfigBase /\ [][NextConfigBase]_vars

-----------------------------------------------------------------------------
(* Properties of load_from_dict *)

ConfigLoaded == config_call.name = "load_from_dict"

\* The entries of a dictionary that the object cannot take: a key that is no
\* attribute of it, a table for an attribute that is no sub-configuration, a
\* value whose TOML type is not that of the attribute's value.
RECURSIVE OffendingPaths(_, _, _)
OffendingPaths(self, dictionary, table_prefix) ==
    UNION {LET key == dictionary[i][1]
               value == dictionary[i][2]
               path == Append(table_prefix, key)
           IN  IF key \notin KeysOf(self.entries) THEN {path}
               ELSE IF value.type = "dict"
                    THEN IF getattr(self, key).type \notin ConfigClasses THEN {path}
                         ELSE OffendingPaths(getattr(self, key), value.entries, path)
                    ELSE IF get_toml_type_from_python_variable(value)
                                # get_toml_type_from_python_variable(getattr(self, key))
                         THEN {path}
                         ELSE {} :
           i \in DOMAIN dictionary}

\* The paths of the values a dictionary gives, tables looked into.
RECURSIVE NamedPaths(_, _)
NamedPaths(dictionary, table_prefix) ==
    UNION {LET path == Append(table_prefix, dictionary[i][1])
           IN  IF dictionary[i][2].type = "dict"
               THEN NamedPaths(dictionary[i][2].entries, path)
               ELSE {path} :
           i \in DOMAIN dictionary}

\* The paths of the values an object holds, sub-configurations looked into.
RECURSIVE LeafPaths(_, _)
LeafPaths(self, table_prefix) ==
    UNION {LET path == Append(table_prefix, self.entries[i][1])
           IN  IF self.entries[i][2].type \in ConfigClasses
               THEN LeafPaths(self.entries[i][2], path)
               ELSE {path} :
           i \in DOMAIN self.entries}

RECURSIVE ValueAt(_, _)
ValueAt(self, path) ==
    IF Len(path) = 1 THEN getattr(self, path[1])
    ELSE ValueAt(getattr(self, path[1]), Tail(path))

Offences == OffendingPaths(config_before, config_call.dictionary, <<>>)

\* C19: load_from_dict raises ValueError naming the path of an offending entry
\* whenever the dictionary has one (an unknown key, a table for an attribute
\* that is no sub-configuration, a value of another TOML type than the
\* attribute's); an empty dictionary changes nothing; a dictionary with no
\* offending entry changes only the values it names, at any depth.
C19_LoadFromDictContract ==
    ConfigLoaded =>
        /\ Offences # {} =>
               /\ config_call.err.raised
               /\ config_call.err.path \in Offences
        /\ config_call.dictionary = <<>> =>
               /\ ~config_call.err.raised
               /\ config = config_before
        /\ Offences = {} =>
               /\ ~config_call.err.raised
               /\ \A path \in LeafPaths(config_before, <<>>) :
                      path \notin NamedPaths(config_call.dictionary, <<>>)
                          => ValueAt(config, path) = ValueAt(config_before, path)

-----------------------------------------------------------------------------
(* tempconfig_eng around a with-block.  The body of the block leaves
   config_eng alone; it ends normally or by raising. *)

TempKeys == {"debug", "symbol", "bipole_height"}
TempLeaves == {Py("bool", 1), Py("float", 100000), Py("float64", 100000)}

TempConfigs == UNION {DictsOfSize(n, TempKeys, TempLeaves) : n \in 0..MaxEntries}

InitTempConfig ==
    /\ config = ManimEngConfig
    /\ config_call = NoConfigCall
    /\ config_before = NoConfig
    /\ with_block = Outside
    /\ CardIdle
    /\ WireIdle
    /\ EmptyCircuit
    /\ ArcIdle
    /\ NodeIdle
    /\ TerminalIdle
    /\ LateIdle

\* `with tempconfig_eng(temp_config):` up to the yield.  When the overrides
\* are refused the error leaves the generator before the try: the block is
\* never entered and nothing is restored.
TempConfigEnter ==
    /\ with_block.pc = "outside"
    /\ \E temp_config \in TempConfigs :
           LET original == as_dict(config)
               loaded == load_from_dict(config, temp_config, <<>>)
           IN  /\ config' = loaded.self
               /\ config_before' = config
               /\ with_block' = [pc |-> IF loaded.err.raised THEN "refused" ELSE "inside",
                                 temp_config |-> temp_config, original |-> original,
                                 body_raised |-> FALSE, err |-> loaded.err]
    /\ UNCHANGED <<config_call, cardVars, wireVars, circuitVars, arcVars, nodeVars, terminalVars, lateVars>>

\* The block is left and the finally clause loads the original back.
TempConfigLeave ==
    /\ with_block.pc = "inside"
    /\ \E body_raised \in BOOLEAN :
           LET restored == load_from_dict(config, with_block.original, <<>>)
           IN  /\ config' = restored.self
               /\ with_block' = [with_block EXCEPT !.pc = "left",
                                                   !.body_raised = body_raised,
                                                   !.err = restored.err]
    /\ UNCHANGED <<config_call, config_before, cardVars, wireVars, circuitVars,
                   arcVars, nodeVars, terminalVars, lateVars>>

\* The with statement is over; config_eng stays as it left it.
TempConfigReturn ==
    /\ with_block.pc \in {"left", "refused"}
    /\ with_block' = Outside
    /\ config_before' = NoConfig
    /\ UNCHANGED <<config, config_call, cardVars, wireVars, circuitVars, arcVars, nodeVars, terminalVars, lateVars>>

NextTempConfig ==
    \/ TempConfigEnter
    \/ TempConfigLeave
    \/ TempConfigReturn

SpecTempConfig == InitTempConfig /\ [][NextTempConfig]_vars

-----------------------------------------------------------------------------
(* Properties of tempconfig_eng *)

\* The value a dictionary gives at a path.
RECURSIVE GivenAt(_, _)
GivenAt(dictionary, path) ==
    LET value == dictionary[IndexOf(dictionary, path[1])][2]
    IN  IF Len(path) = 1 THEN value ELSE GivenAt(value.entries, Tail(path))

\* C18: inside the with-block config_eng holds the overrides, and once the
\* block is left, normally or by an exception of the body, config_eng equals
\* what it was before the block was entered.
C18_TempConfigRestores ==
    /\ with_block.pc = "inside" =>
           \A path \in NamedPaths(with_block.temp_config, <<>>) :
               ValueAt(config, path) = GivenAt(with_block.temp_config, path)
    /\ with_block.pc = "left" =>
           /\ ~with_block.err.raised
           /\ config = config_before

-----------------------------------------------------------------------------
(* Terminal: the current arrow and the current mark.

   current_arrow_rotation is the angle of the arrow from the direction of the
   terminal, in degrees: 0 points out of the component, 180 into it.
   current_anchor is the anchor the mark hangs on, current_marked whether the
   mark is among the marks of the terminal.  An argument that may be left out
   is <<>> when it is, <<b>> when b is passed. *)

HalfTurn == 180
Labels == {"I", "J"}
NoneGiven == <<>>
Given(b) == <<b>>
OptionalBools == {NoneGiven, Given(FALSE), Given(TRUE)}

\* __rebuild_current_arrow: a new arrow along the direction, turned by pi
\* unless it is to point out.
rebuild_current_arrow(self) ==
    [self EXCEPT !.current_arrow_rotation =
                     IF self.current_arrow_pointing_out THEN 0 ELSE HalfTurn]

Terminal_init ==
    rebuild_current_arrow(
        [current_arrow_showing |-> FALSE, current_arrow_pointing_out |-> FALSE,
         current_arrow_rotation |-> 0, current_mark_anchored_below |-> FALSE,
         current_anchor |-> "top", current_marked |-> FALSE, current_text |-> ""])

\* Mark.change_anchors
change_anchors(self, anchor) == [self EXCEPT !.current_anchor = anchor]

\* Markable._set_mark and _clear_mark on the current mark
set_mark(self, mark_text) ==
    [self EXCEPT !.current_marked = TRUE, !.current_text = mark_text]
clear_mark(self) == [self EXCEPT !.current_marked = FALSE]

\* set_current with the arrow turned but the turn not recorded.
set_current_turn_not_recorded(self, label, out, below) ==
    LET shown == IF ~self.current_arrow_showing
                 THEN [rebuild_current_arrow(self) EXCEPT !.current_arrow_showing = TRUE]
                 ELSE self
        turned == IF out # NoneGiven /\ out[1] # shown.current_arrow_pointing_out
                  THEN [shown EXCEPT !.current_arrow_rotation = (@ + HalfTurn) % (2 * HalfTurn)]
                  ELSE shown
        anchored == IF below # NoneGiven /\ below[1] # turned.current_mark_anchored_below
                    THEN [change_anchors(turned, IF below[1] THEN "bottom" ELSE "top")
                              EXCEPT !.current_mark_anchored_below = below[1]]
                    ELSE turned
    IN  set_mark(anchored, label)

set_current(self, label, out, below) ==
    LET shown == IF ~self.current_arrow_showing
                 THEN [rebuild_current_arrow(self) EXCEPT !.current_arrow_showing = TRUE]
                 ELSE self
        turned == IF out # NoneGiven /\ out[1] # shown.current_arrow_pointing_out
                  THEN [shown EXCEPT !.current_arrow_rotation = (@ + HalfTurn) % (2 * HalfTurn),
                                     !.current_arrow_pointing_out = out[1]]
                  ELSE shown
        anchored == IF below # NoneGiven /\ below[1] # turned.current_mark_anchored_below
                    THEN [change_anchors(turned, IF below[1] THEN "bottom" ELSE "top")
                              EXCEPT !.current_mark_anchored_below = below[1]]
                    ELSE turned
    IN  set_mark(anchored, label)

reset_current(self, label, out, below) == set_current(self, label, Given(out), Given(below))

clear_current(self) ==
    clear_mark([self EXCEPT !.current_arrow_showing = FALSE])

InitTerminal ==
    /\ terminal_state = Terminal_init
    /\ terminal_call = NoTerminalCall
    /\ terminal_before = NoTerminalState
    /\ CardIdle
    /\ WireIdle
    /\ EmptyCircuit
    /\ ArcIdle
    /\ NodeIdle
    /\ ConfigIdle
    /\ LateIdle

TerminalCalled(name, label, out, below, after) ==
    /\ terminal_state' = after
    /\ terminal_call' = [name |-> name, label |-> label, out |-> out, below |-> below]
    /\ terminal_before' = terminal_state
    /\ UNCHANGED <<cardVars, wireVars, circuitVars, arcVars, nodeVars, configVars, lateVars>>

SetCurrent ==
    \E label \in Labels, out \in OptionalBools, below \in OptionalBools :
        TerminalCalled("set_current", label, out, below,
                       set_current(terminal_state, label, out, below))

ResetCurrent ==
    \E label \in Labels, out \in BOOLEAN, below \in BOOLEAN :
        TerminalCalled("reset_current", label, Given(out), Given(below),
                       reset_current(terminal_state, label, out, below))

ClearCurrent ==
    TerminalCalled("clear_current", "", NoneGiven, NoneGiven, clear_current(terminal_state))

NextTerminal ==
    \/ SetCurrent
    \/ ResetCurrent
    \/ ClearCurrent

SpecTerminal == InitTerminal /\ [][NextTerminal]_vars

-----------------------------------------------------------------------------
(* Properties of the current annotation *)

\* C20: after reset_current(label, out, below) the arrow is shown and points
\* out iff out, the mark hangs below iff below and reads label, whatever was
\* called before; set_current leaves the direction of the arrow alone when out
\* is not given and the side of the mark alone when below is not given.
C20_ResetCurrentForgetsHistory ==
    /\ terminal_call.name = "reset_current" =>
           /\ terminal_state.current_arrow_showing
           /\ terminal_state.current_arrow_rotation = (IF terminal_call.out[1] THEN 0 ELSE HalfTurn)
           /\ terminal_state.current_arrow_pointing_out = terminal_call.out[1]
           /\ terminal_state.current_anchor = (IF terminal_call.below[1] THEN "bottom" ELSE "top")
           /\ terminal_state.current_mark_anchored_below = terminal_call.below[1]
           /\ terminal_state.current_marked
           /\ terminal_state.current_text = terminal_call.label
    /\ terminal_call.name = "set_current" =>
           /\ terminal_call.out = NoneGiven =>
                  /\ terminal_state.current_arrow_rotation = terminal_before.current_arrow_rotation
                  /\ terminal_state.current_arrow_pointing_out
                         = terminal_before.current_arrow_pointing_out
           /\ terminal_call.below = NoneGiven =>
                  /\ terminal_state.current_anchor = terminal_before.current_anchor
                  /\ terminal_state.current_mark_anchored_below
                         = terminal_before.current_mark_anchored_below

\* reset_current is called with its defaults on a terminal that was left with
\* its arrow pointing out and its mark below, then cleared.
C20_Witness ==
    /\ terminal_call.name = "reset_current"
    /\ terminal_call.out = Given(FALSE)
    /\ terminal_call.below = Given(FALSE)
    /\ ~terminal_before.current_arrow_showing
    /\ terminal_before.current_arrow_pointing_out
    /\ terminal_before.current_mark_anchored_below

-----------------------------------------------------------------------------
(* Properties of the updater of a wire *)

UpdaterRuns == wire_updates' = wire_updates + 1

-----------------------------------------------------------------------------
(* Component.voltage on a source-like bipole: two terminals, each reached
   through two attributes; an attribute that is no terminal; a terminal of
   another component. *)

ComponentTerminals == <<"t1", "t2">>
ForeignTerminals == {"x1"}
NotATerminal == "3"

TerminalAttributes == {"left", "right", "negative", "positive"}
AttributeNames == TerminalAttributes \cup {"not_a_terminal", "missing"}

\* An argument of voltage(): a Terminal, the name of an attribute, or None.
TerminalArg(terminal) == [kind |-> "Terminal", value |-> terminal]
NameArg(name) == [kind |-> "str", value |-> name]
TerminalArguments ==
    {TerminalArg(t) : t \in Range(ComponentTerminals) \cup ForeignTerminals}
        \cup {NameArg(name) : name \in AttributeNames}
        \cup {NoArgument}

NoSuchAttribute == "AttributeError"
NotOwnedError == "ValueError: Passed terminal does not belong to this component."
NotTerminalError == "ValueError: Attribute is not a terminal."
IdenticalTerminalsError == "ValueError: The terminals specified are identical."

\* getattr(self, name) for the attributes of the component
component_getattr(name) ==
    CASE name \in {"left", "negative"} -> ComponentTerminals[1]
      [] name \in {"right", "positive"} -> ComponentTerminals[2]
      [] name = "not_a_terminal" -> NotATerminal
      [] OTHER -> NoSuchAttribute

get_or_check_terminal(terminal) ==
    IF terminal.kind = "None"
    THEN [err |-> NoError, terminal |-> ComponentTerminals[1]]
    ELSE IF terminal.kind = "Terminal"
    THEN IF terminal.value \notin Range(ComponentTerminals)
         THEN [err |-> NotOwnedError, terminal |-> ""]
         ELSE [err |-> NoError, terminal |-> terminal.value]
    ELSE LET to_return == component_getattr(terminal.value)
         IN  IF to_return = NoSuchAttribute
             THEN [err |-> NoSuchAttribute, terminal |-> ""]
             ELSE IF to_return \notin Range(ComponentTerminals) \cup ForeignTerminals
             THEN [err |-> NotTerminalError, terminal |-> ""]
             ELSE [err |-> NoError, terminal |-> to_return]

\* Voltage(from_terminal, to_terminal, label, avoid=...)
Voltage_init(from, to, label, avoid) ==
    [from_terminal |-> from, to_terminal |-> to, label |-> label, avoid |-> avoid]

\* voltage() without the test that the two terminals differ.
voltage_identity_unchecked(from_arg, to_arg, label) ==
    LET from == get_or_check_terminal(from_arg)
        to == get_or_check_terminal(to_arg)
    IN  IF from.err # NoError THEN [err |-> from.err, voltage |-> NoVoltage]
        ELSE IF to.err # NoError THEN [err |-> to.err, voltage |-> NoVoltage]
        ELSE [err |-> NoError,
              voltage |-> Voltage_init(from.terminal, to.terminal, label, "self")]

\* Component.voltage
voltage_of(from_arg, to_arg, label) ==
    LET from == get_or_check_terminal(from_arg)
        to == get_or_check_terminal(to_arg)
    IN  IF from.err # NoError THEN [err |-> from.err, voltage |-> NoVoltage]
        ELSE IF to.err # NoError THEN [err |-> to.err, voltage |-> NoVoltage]
        ELSE IF from.terminal = to.terminal
        THEN [err |-> IdenticalTerminalsError, voltage |-> NoVoltage]
        ELSE [err |-> NoError,
              voltage |-> Voltage_init(from.terminal, to.terminal, label, "self")]

InitComponent ==
    /\ ComponentIdle
    /\ CardIdle
    /\ WireIdle
    /\ EmptyCircuit
    /\ ArcIdle
    /\ NodeIdle
    /\ ConfigIdle
    /\ TerminalIdle
    /\ submobjects = <<>>
    /\ markable_call = <<>>

ComponentVoltage ==
    /\ component_call = NoComponentCall
    /\ \E from \in TerminalArguments, to \in TerminalArguments, label \in Labels :
           /\ component_call' = [name |-> "voltage", from_terminal |-> from,
                                 to_terminal |-> to, label |-> label]
           /\ component_result' = voltage_of(from, to, label)
    /\ UNCHANGED <<cardVars, wireVars, circuitVars, arcVars, nodeVars, configVars,
                   terminalVars, markableVars>>

NextComponent == ComponentVoltage

SpecComponent == InitComponent /\ [][NextComponent]_vars

-----------------------------------------------------------------------------
(* Properties of Component.voltage *)

\* The terminal of the component an argument stands for, "" when it stands
\* for none: a terminal of the component itself, or the terminal that the
\* attribute named returns.
ResolvesTo(argument) ==
    IF argument.kind = "Terminal"
    THEN IF argument.value \in Range(ComponentTerminals) THEN argument.value ELSE ""
    ELSE IF argument.kind = "str" /\ argument.value \in TerminalAttributes
    THEN component_getattr(argument.value)
    ELSE ""

\* C22: voltage() raises a ValueError and makes no Voltage whenever its two
\* arguments, Terminal objects or attribute names, stand for the same terminal
\* of the component; when they stand for two different terminals of the
\* component the Voltage returned goes from the first to the second.
C22_VoltageBetweenDifferentTerminals ==
    component_call.name = "voltage" =>
        LET from == ResolvesTo(component_call.from_terminal)
            to == ResolvesTo(component_call.to_terminal)
        IN  /\ (from # "" /\ from = to) =>
                   /\ component_result.err = IdenticalTerminalsError
                   /\ component_result.voltage = NoVoltage
            /\ (from # "" /\ to # "" /\ from # to) =>
                   /\ component_result.err = NoError
                   /\ component_result.voltage.from_terminal = from
                   /\ component_result.voltage.to_terminal = to

\* The same terminal is given once by one of its names and once by another.
C22_Witness ==
    /\ component_call.name = "voltage"
    /\ component_call.from_terminal = NameArg("left")
    /\ component_call.to_terminal = NameArg("negative")
    /\ component_result.err = IdenticalTerminalsError

-----------------------------------------------------------------------------
(* Properties of the relocated corner and of the parallel router *)

\* Where the lines of the two terminals cross, and whether that point is
\* strictly behind the exit plane of one of them.
Intersection ==
    find_intersection(from_terminal.end, from_cardinal, to_terminal.end, to_cardinal)
IntersectionBehind ==
    \/ point_is_behind_plane(Intersection, from_terminal.end, from_cardinal)
    \/ point_is_behind_plane(Intersection, to_terminal.end, to_cardinal)

\* The vertex opposite p of the rectangle with the two ends as corners.
OtherVertex(p) ==
    <<from_terminal.end[1] + to_terminal.end[1] - p[1],
      from_terminal.end[2] + to_terminal.end[2] - p[2]>>

\* The path turns by a quarter turn at the two ends: it leaves each end
\* across the direction of its terminal.
QuarterTurnsAtEnds ==
    /\ FirstSegment # <<0, 0>>
    /\ Dot(Cart(from_cardinal), FirstSegment) = 0
    /\ LastSegment # <<0, 0>>
    /\ Dot(Cart(to_cardinal), LastSegment) = 0

EndsApart ==
    /\ from_terminal.end[1] # to_terminal.end[1]
    /\ from_terminal.end[2] # to_terminal.end[2]

ToBehindFrom ==
    point_is_behind_plane(to_terminal.end, from_terminal.end, from_cardinal)
FromBehindTo ==
    point_is_behind_plane(from_terminal.end, to_terminal.end, to_cardinal)
Midpoint == midpoint(from_terminal.end, to_terminal.end)

\* The foot of the perpendicular from p to the line through `end` across the
\* axis direction `direction`.
Projection(p, end, direction) ==
    IF Cart(direction)[2] = 0 THEN <<end[1], p[2]>> ELSE <<p[1], end[2]>>

\* p lies on the segment between q and r, which is horizontal or vertical.
OnSegment(p, q, r) ==
    /\ (p[1] - q[1]) * (r[2] - q[2]) = (p[2] - q[2]) * (r[1] - q[1])
    /\ Dot(Sub(p, q), Sub(p, r)) <= 0

\* The two ends lie on one line along the direction of the terminals.
EndsInLine ==
    Cart(from_cardinal)[1] * (to_terminal.end[2] - from_terminal.end[2])
        - Cart(from_cardinal)[2] * (to_terminal.end[1] - from_terminal.end[1]) = 0

PlaneEnd == IF ToBehindFrom THEN from_terminal.end ELSE to_terminal.end
PlaneNormal == IF ToBehindFrom THEN from_cardinal ELSE to_cardinal
OtherEnd == IF ToBehindFrom THEN to_terminal.end ELSE from_terminal.end
OtherNormal == IF ToBehindFrom THEN to_cardinal ELSE from_cardinal
MovedMidpoint == move_point_forward_of_plane(Midpoint, PlaneEnd, PlaneNormal)

\* The points of the wire and the midpoint of its ends.
PointsOfWire == {Path[i] : i \in 1..Len(Path)} \cup {Midpoint}

\* C25: in the parallel case, when exactly one end is behind the exit plane
\* of the other terminal, the midpoint is moved along the normal of that
\* plane onto the plane; a point on or in front of a plane is not behind it
\* and is not moved; of the two corners, the one next to the terminal whose
\* plane was used is the end of that terminal and the other lies on the exit
\* ray of the other terminal.
C25_ElbowWhenOneBehind ==
    (Constructed /\ Parallel /\ (ToBehindFrom # FromBehindTo)) =>
        /\ Dot(Cart(PlaneNormal), Sub(MovedMidpoint, PlaneEnd)) = 0
        /\ MovedMidpoint = Projection(Midpoint, PlaneEnd, PlaneNormal)
        /\ ~point_is_behind_plane(PlaneEnd, PlaneEnd, PlaneNormal)
        /\ \A p \in PointsOfWire :
               ~point_is_behind_plane(p, PlaneEnd, PlaneNormal) =>
                   move_point_forward_of_plane(p, PlaneEnd, PlaneNormal) = p
        /\ Len(Corners) = 2
        /\ Corners[IF ToBehindFrom THEN 1 ELSE 2] = PlaneEnd
        /\ OnExitRay(Corners[IF ToBehindFrom THEN 2 ELSE 1], OtherEnd, OtherNormal)

\* From (0, 0) to (2, 2), both facing right: the midpoint (1, 1) is moved to
\* (2, 1) and the corners are (2, 0) and the end (2, 2).
C25_Witness ==
    /\ Constructed
    /\ from_terminal = [end |-> <<0, 0>>, direction |-> [mag |-> 1, ang |-> 0]]
    /\ to_terminal = [end |-> <<2, 2>>, direction |-> [mag |-> 1, ang |-> 30]]
    /\ FromBehindTo /\ ~ToBehindFrom
    /\ Midpoint = <<1, 1>>
    /\ MovedMidpoint = <<2, 1>>
    /\ Corners = << <<2, 0>>, <<2, 2>> >>

-----------------------------------------------------------------------------
(* When the arc solver fails *)

\* C26: the solver fails, its matrix being singular, exactly when the from
\* end, the middle point and the to end are collinear (two of them equal
\* included); for any other three points the matrix is inverted, the radius
\* is not zero and the argument of arcsin, chord / (2 * radius), is in
\* [0, 1], so that an angle is returned.
C26_SingularIffCollinear ==
    arc_details # NoArc =>
        /\ (arc_details.err = LinAlgError) <=> Collinear
        /\ ~Collinear =>
               /\ arc_details.err = NoError
               /\ arc_details.radius_sq_num > 0
               /\ arc_details.radius_sq_den > 0
               /\ arc_details.angle.sin_sq_num >= 0
               /\ arc_details.angle.sin_sq_den > 0
               /\ arc_details.angle.sin_sq_num <= arc_details.angle.sin_sq_den
               /\ arrow # NoArrow

\* Three different points of one line: the inversion has failed and no arrow
\* is drawn.
C26_Witness ==
    /\ arc_details # NoArc
    /\ voltage.from_end = <<-1, -1>>
    /\ middle_point = <<0, 0>>
    /\ voltage.to_end = <<1, 1>>
    /\ Collinear
    /\ arc_details.err = LinAlgError
    /\ arrow = NoArrow

-----------------------------------------------------------------------------
(* The wires of the circuit and the elements they end at *)

\* C27 as claimed: whatever calls of add, remove, connect, disconnect and
\* isolate have been made, every wire of the circuit has its from_terminal
\* and its to_terminal owned by a component or node that is an element of
\* the circuit.
C27_WiresEndAtElements ==
    \A i \in DOMAIN wires :
        /\ Owned(wires[i].from_terminal)
        /\ Owned(wires[i].to_terminal)

-----------------------------------------------------------------------------
(* The connection counts of the terminals *)

\* A circuit on which only the plain methods are called.
NextCircuitPlain ==
    \/ Return
    \/ CircuitAdd
    \/ CircuitRemove
    \/ Connect
    \/ Disconnect
    \/ Isolate

SpecCircuitPlain == InitCircuit /\ [][NextCircuitPlain]_vars

\* The number of wires of the circuit that end at the terminal t.
WiresEndingAt(t) ==
    Cardinality({i \in DOMAIN wires :
                    wires[i].from_terminal = t \/ wires[i].to_terminal = t})

\* C28 as claimed: after any calls of the plain connect, disconnect and
\* isolate, the connection count of every terminal, the attach calls less the
\* detach calls of the wires that end at it, is the number of wires of the
\* circuit that end at it: every wire removed has been detached.
C28_ConnectionCountsMatchWires ==
    \A t \in TerminalIds : connection_count[t] = WiresEndingAt(t)

-----------------------------------------------------------------------------
(* The blob of an autoblobbing node *)

\* C29: whatever has been called on a node, when its autoblob flag is on its
\* blob is visible exactly when it has more than two terminals; and a call of
\* set_blob_visibility (show_blob and hide_blob are such calls) leaves the
\* autoblob flag off.
C29_AutoblobFollowsTerminalCount ==
    /\ node.autoblob =>
           (node.blob_visible <=> Len(node.terminals) > AUTOBLOBBING_BLOB_THRESHOLD)
    /\ node_call.name = "set_blob_visibility" => ~node.autoblob

\* The third terminal of an autoblobbing node whose blob was hidden: the get
\* that created it has shown the blob.
C29_Witness ==
    /\ node_call.name = "get"
    /\ node.autoblob
    /\ Len(node_before.terminals) = 2
    /\ ~node_before.blob_visible
    /\ Len(node.terminals) = 3
    /\ node.blob_visible

-----------------------------------------------------------------------------
(* manim_eng._base.markable.Markable and the construction of a Component *)

\* add, add_to_back and remove are passed at most MaxMobjects mobjects.
MaxMobjects == 2

\* The Markables: a component, its terminal, and a Markable that is added to
\* the component.  Each has a group that rotate turns and a group of marks.
Markables == {"component", "terminal", "child"}
rotate_of(m) ==
    CASE m = "component" -> "component.rotate"
      [] m = "terminal" -> "terminal.rotate"
      [] m = "child" -> "child.rotate"
marks_of(m) ==
    CASE m = "component" -> "component.marks"
      [] m = "terminal" -> "terminal.marks"
      [] m = "child" -> "child.marks"

\* The mark of each Markable: the label of the component, the current of the
\* terminal, the label of the child.
mark_of(m) ==
    CASE m = "component" -> "component.label"
      [] m = "terminal" -> "terminal.current"
      [] m = "child" -> "child.label"
Marks == {mark_of(m) : m \in Markables}

\* The groups of the model, and the mobjects that are not Markable.
Groups ==
    {rotate_of(m) : m \in Markables} \cup {marks_of(m) : m \in Markables}
        \cup {"body"}
Shapes == {"shape"}
Anchors == <<"centre_anchor", "label_anchor", "annotation_anchor">>

\* isinstance(mobject, Markable)
is_Markable(mobject) == mobject \in Markables

\* The elements of a list, each once, at its first and at its last place.
RECURSIVE DedupFirst(_)
DedupFirst(list) ==
    IF list = <<>> THEN <<>>
    ELSE LET front == DedupFirst(SubSeq(list, 1, Len(list) - 1))
             last == list[Len(list)]
         IN  IF \E i \in DOMAIN front : front[i] = last THEN front
             ELSE Append(front, last)
RECURSIVE DedupLast(_)
DedupLast(list) ==
    IF list = <<>> THEN <<>>
    ELSE LET back == DedupLast(Tail(list))
         IN  IF \E i \in DOMAIN back : back[i] = Head(list) THEN back
             ELSE <<Head(list)>> \o back

Without(list, mobjects) ==
    SelectSeq(list, LAMBDA e : \A i \in DOMAIN mobjects : mobjects[i] # e)

\* mn.Mobject.add, add_to_back and remove on the submobjects of a group.
Mobject_add(list, mobjects) == Without(list, mobjects) \o DedupLast(mobjects)
Mobject_add_to_back(list, mobjects) == DedupFirst(mobjects) \o Without(list, mobjects)
Mobject_remove(list, mobjects) == Without(list, mobjects)
Mobject_call(method, list, mobjects) ==
    CASE method = "add" -> Mobject_add(list, mobjects)
      [] method = "add_to_back" -> Mobject_add_to_back(list, mobjects)
      [] method = "remove" -> Mobject_remove(list, mobjects)

\* Markable.__init__: the two groups are empty.
Markable_init(subs, m) ==
    [subs EXCEPT ![rotate_of(m)] = <<>>, ![marks_of(m)] = <<>>]

\* One turn of the loop of Markable.add, add_to_back or remove, `method`
\* being the method of the groups that it calls.
Markable_loop_body(subs, m, mobject, mobjects, method) ==
    IF is_Markable(mobject)
    THEN [subs EXCEPT
             ![rotate_of(m)] = Mobject_call(method, @, <<rotate_of(mobject)>>),
             ![marks_of(m)] = Mobject_call(method, @, <<marks_of(mobject)>>)]
    ELSE [subs EXCEPT ![rotate_of(m)] = Mobject_call(method, @, mobjects)]

\* for mobject in [*mobjects]: ...
RECURSIVE Markable_loop(_, _, _, _, _)
Markable_loop(subs, m, todo, mobjects, method) ==
    IF todo = <<>> THEN subs
    ELSE Markable_loop(
             Markable_loop_body(subs, m, Head(todo), mobjects, method),
             m, Tail(todo), mobjects, method)

\* Markable.add, Markable.add_to_back, Markable.remove
Markable_add(subs, m, mobjects) ==
    Markable_loop(subs, m, mobjects, mobjects, "add")
Markable_add_to_back(subs, m, mobjects) ==
    Markable_loop(subs, m, mobjects, mobjects, "add_to_back")
Markable_remove(subs, m, mobjects) ==
    Markable_loop(subs, m, mobjects, mobjects, "remove")

\* Markable._set_mark and Markable._clear_mark
Markable_set_mark(subs, m, mark_to_set) ==
    IF \A i \in DOMAIN subs[marks_of(m)] : subs[marks_of(m)][i] # mark_to_set
    THEN [subs EXCEPT ![marks_of(m)] = Mobject_add(@, <<mark_to_set>>)]
    ELSE subs
Markable_clear_mark(subs, m, mark) ==
    IF \E i \in DOMAIN subs[marks_of(m)] : subs[marks_of(m)][i] = mark
    THEN [subs EXCEPT ![marks_of(m)] = Mobject_remove(@, <<mark>>)]
    ELSE subs

\* Terminal.__init__ and the Markable that will be added: their lines are in
\* their rotating groups.
Terminal_constructed(subs) ==
    Markable_add(Markable_init(subs, "terminal"), "terminal", <<"terminal.line">>)
Child_constructed(subs) ==
    Markable_add(Markable_init(subs, "child"), "child", <<"child.line">>)

\* Component.__init__: the body is added, the symbol is constructed in it,
\* the terminals are added to the body, the anchors are added and the label,
\* when one is given, is set.
Component_init(subs, label_given) ==
    LET with_body == Markable_add(Markable_init(subs, "component"),
                                  "component", <<"body">>)
        constructed == [with_body EXCEPT !["body"] = Mobject_add(@, <<"symbol">>)]
        with_terminals ==
            [constructed EXCEPT !["body"] = Mobject_add(@, <<"terminal">>)]
        with_anchors == Markable_add(with_terminals, "component", Anchors)
    IN  IF label_given
        THEN Markable_set_mark(with_anchors, "component", mark_of("component"))
        ELSE with_anchors

NoSubmobjects == [g \in Groups |-> <<>>]

\* What add, add_to_back and remove of the component are passed.
MobjectLists ==
    UNION {[1..k -> {"child"} \cup Shapes] : k \in 1..MaxMobjects}

InitMarkable ==
    /\ \E label_given \in BOOLEAN :
           /\ submobjects =
                  Component_init(Child_constructed(Terminal_constructed(NoSubmobjects)),
                                 label_given)
           /\ markable_call =
                  [name |-> "Component", on |-> "component",
                   mobjects |-> IF label_given THEN <<mark_of("component")>> ELSE <<>>]
    /\ CardIdle
    /\ WireIdle
    /\ EmptyCircuit
    /\ ArcIdle
    /\ NodeIdle
    /\ ConfigIdle
    /\ TerminalIdle
    /\ ComponentIdle

MarkableCalled(name, m, mobjects, after) ==
    /\ submobjects' = after
    /\ markable_call' = [name |-> name, on |-> m, mobjects |-> mobjects]
    /\ UNCHANGED <<cardVars, wireVars, circuitVars, arcVars, nodeVars, configVars,
                   terminalVars, componentVars>>

MarkableAdd ==
    \E mobjects \in MobjectLists :
        MarkableCalled("add", "component", mobjects,
                       Markable_add(submobjects, "component", mobjects))

MarkableAddToBack ==
    \E mobjects \in MobjectLists :
        MarkableCalled("add_to_back", "component", mobjects,
                       Markable_add_to_back(submobjects, "component", mobjects))

MarkableRemove ==
    \E mobjects \in MobjectLists :
        MarkableCalled("remove", "component", mobjects,
                       Markable_remove(submobjects, "component", mobjects))

MarkableSetMark ==
    \E m \in Markables :
        MarkableCalled("_set_mark", m, <<mark_of(m)>>,
                       Markable_set_mark(submobjects, m, mark_of(m)))

MarkableClearMark ==
    \E m \in Markables :
        MarkableCalled("_clear_mark", m, <<mark_of(m)>>,
                       Markable_clear_mark(submobjects, m, mark_of(m)))

NextMarkable ==
    \/ MarkableAdd
    \/ MarkableAddToBack
    \/ MarkableRemove
    \/ MarkableSetMark
    \/ MarkableClearMark

SpecMarkable == InitMarkable /\ [][NextMarkable]_vars

-----------------------------------------------------------------------------
(* What Markable.rotate turns *)

\* mobject.submobjects
SubmobjectsOf(mobject) ==
    IF mobject \in Markables THEN {rotate_of(mobject), marks_of(mobject)}
    ELSE IF mobject \in Groups
    THEN {submobjects[mobject][i] : i \in DOMAIN submobjects[mobject]}
    ELSE {}

\* The family of a mobject less the mobject itself: the mobjects reached from
\* it through submobjects.  No chain is longer than there are groups and
\* Markables.
Depth == Cardinality(Groups \cup Markables)
RECURSIVE Below(_, _)
Below(mobject, depth) ==
    IF depth = 0 THEN {}
    ELSE SubmobjectsOf(mobject)
             \cup UNION {Below(sub, depth - 1) : sub \in SubmobjectsOf(mobject)}
Descendants(mobject) == Below(mobject, Depth)

\* What rotate of the component turns.
Rotated == Descendants(rotate_of("component"))

\* The child is part of the component: one of its two groups is in the group
\* of the component it belongs to.
ChildAdded ==
    \/ rotate_of("child") \in SubmobjectsOf(rotate_of("component"))
    \/ marks_of("child") \in SubmobjectsOf(marks_of("component"))

\* C30 as claimed: whatever has been added to and removed from the component
\* since it was constructed, rotate turns neither a mark of the component nor
\* a mark of the Markable added to it: the component holds of that child its
\* rotating group, in its own rotating group, and its group of marks, in its
\* own group of marks, and nothing else.
C30_RotateTurnsNoMark ==
    /\ mark_of("component") \notin Rotated
    /\ mark_of("child") \notin Rotated
    /\ marks_of("component") \notin Rotated
    /\ marks_of("child") \notin Rotated
    /\ "child" \notin Rotated
    /\ rotate_of("child") \notin SubmobjectsOf(marks_of("component"))

====
